---- MODULE Spec2Model ----
(***************************************************************************)
(* Transcript acquisition with its resilience layer: the proxy pool        *)
(* (src/src/proxy_manager.py), the transcript cache                        *)
(* (src/src/transcript_cache.py) and the fetch loop                        *)
(* YouTubeClient.get_transcript (src/src/youtube_client.py).               *)
(*                                                                         *)
(* Time is an integer number of seconds.  Python strings that the code     *)
(* matches by substring (proxy URLs) are sequences of one-character        *)
(* strings; strings that are only stored and compared are TLA+ strings.    *)
(***************************************************************************)
EXTENDS Integers, Sequences, FiniteSets, TLC

VARIABLES cfg, proxies, current_index, now, cache, disk, call, hist, count

vars == <<cfg, proxies, current_index, now, cache, disk, call, hist, count>>

(***************************************************************************)
(* Bounds of the model.                                                    *)
(***************************************************************************)
\* Largest number of entries in the pool.
MaxPool == 2
\* Largest configured failure_threshold.
MaxThreshold == 2
\* Pool operations in one run of SpecPool.
MaxOps == 5
\* Bound on the max_retries of the RetryHandler runs (SpecRetry).
MaxRetriesBound == 2
\* get_transcript calls in one run of Spec.
MaxCalls == 1
\* Cache operations in one run of SpecCache.
MaxCacheOps == 4
\* Uploads of one channel in the catalog of SpecList.
MaxItems == 2
\* Calls of the driver's functions in one run of SpecBatch.
MaxBatchOps == 2

(***************************************************************************)
(* Python values.                                                          *)
(***************************************************************************)
\* None of an Optional[datetime] (ProxyInfo.last_used, .disabled_until).
NoTime == -1
\* datetime.min, the sort key of an entry that was never disabled.
DatetimeMin == -2
\* None of an Optional[str] (a transcript, a result).
None == "<None>"
\* None of an Optional[Dict[str, str]] (a proxy dict).
NoneDict == << >>

\* str(int) for a non-negative int.
DigitChar(d) == <<"0", "1", "2", "3", "4", "5", "6", "7", "8", "9">>[d + 1]

RECURSIVE IntToStr(_)
IntToStr(n) ==
    IF n < 10 THEN <<DigitChar(n)>>
    ELSE IntToStr(n \div 10) \o <<DigitChar(n % 10)>>

\* Python's `a in b` for two strings.
IsSubstring(a, b) ==
    \E i \in 0..(Len(b) - Len(a)) : SubSeq(b, i + 1, i + Len(a)) = a

(***************************************************************************)
(* ProxyInfo (proxy_manager.py:21-51).                                     *)
(***************************************************************************)
\* The host/port/credential lines a proxy list can hold.  Port 80 and port
\* 8080 of the same host give two entries of which one "host:port" text is
\* a prefix of the other.
ProxyLines ==
    { [host |-> <<"h">>, port |-> pt, username |-> <<"u">>, password |-> <<"p">>]
        : pt \in {80, 8080} }

ProxyInfo(line) ==
    [host |-> line.host, port |-> line.port,
     username |-> line.username, password |-> line.password,
     failure_count |-> 0, success_count |-> 0,
     last_used |-> NoTime, disabled_until |-> NoTime]

\* f"http://{username}:{password}@{host}:{port}"
url(p) ==
    <<"h", "t", "t", "p", ":", "/", "/">> \o p.username \o <<":">>
        \o p.password \o <<"@">> \o p.host \o <<":">> \o IntToStr(p.port)

as_dict(p) == [http |-> url(p), https |-> url(p)]

is_available(p, t) ==
    IF p.disabled_until = NoTime THEN TRUE ELSE t > p.disabled_until

(***************************************************************************)
(* ProxyManager (proxy_manager.py:54-331).  Each operation is a function   *)
(* of the pool (the list `proxies`, the cursor `current_index`, the        *)
(* configuration) and the clock reading t.                                 *)
(***************************************************************************)
has_proxies(ps) == Len(ps) > 0

\* The while loop of get_next_proxy: `found` is the 1-based position of the
\* entry returned (0: every entry was skipped), `current_index` the cursor
\* the loop leaves.
\* Variant of scan that hands out the entry at the cursor without looking
\* at its availability.
scan_noskip(ps, ci, attempts, t) ==
    [found |-> ci + 1, current_index |-> (ci + 1) % Len(ps)]

RECURSIVE scan(_, _, _, _)
scan(ps, ci, attempts, t) ==
    IF attempts >= Len(ps) THEN [found |-> 0, current_index |-> ci]
    ELSE LET proxy == ps[ci + 1]
             nxt == (ci + 1) % Len(ps)
         IN  IF is_available(proxy, t)
             THEN [found |-> ci + 1, current_index |-> nxt]
             ELSE scan(ps, nxt, attempts + 1, t)

\* sorted(self.proxies, key=lambda p: p.disabled_until or datetime.min)[0];
\* sorted() is stable, so ties go to the earlier entry.
SortKey(p) == IF p.disabled_until = NoTime THEN DatetimeMin ELSE p.disabled_until

\* Variant of LeastRecentlyFailed that sorts in descending order.
LeastRecentlyFailed_descending(ps) ==
    CHOOSE i \in 1..Len(ps) :
        \A j \in 1..Len(ps) :
            \/ SortKey(ps[i]) > SortKey(ps[j])
            \/ (SortKey(ps[i]) = SortKey(ps[j]) /\ i <= j)

LeastRecentlyFailed(ps) ==
    CHOOSE i \in 1..Len(ps) :
        \A j \in 1..Len(ps) :
            \/ SortKey(ps[i]) < SortKey(ps[j])
            \/ (SortKey(ps[i]) = SortKey(ps[j]) /\ i <= j)

\* Variant of get_next_proxy that does not store the advanced cursor.
get_next_proxy_nocursor(ps, ci, t) ==
    IF ~has_proxies(ps)
    THEN [proxies |-> ps, current_index |-> ci, ret |-> NoneDict, sel |-> 0]
    ELSE LET s == scan(ps, ci, 0, t)
             i == IF s.found # 0 THEN s.found ELSE LeastRecentlyFailed(ps)
         IN  [proxies |-> [ps EXCEPT ![i].last_used = t],
              current_index |-> ci,
              ret |-> as_dict(ps[i]),
              sel |-> i]

\* Result: the pool after the call, the dict returned (`ret`) and the
\* position of the entry it was made from (`sel`, 0 when None is returned).
get_next_proxy(ps, ci, t) ==
    IF ~has_proxies(ps)
    THEN [proxies |-> ps, current_index |-> ci, ret |-> NoneDict, sel |-> 0]
    ELSE LET s == scan(ps, ci, 0, t)
             i == IF s.found # 0 THEN s.found ELSE LeastRecentlyFailed(ps)
         IN  [proxies |-> [ps EXCEPT ![i].last_used = t],
              current_index |-> s.current_index,
              ret |-> as_dict(ps[i]),
              sel |-> i]

\* Position of the first entry whose URL or "host:port" text occurs in the
\* dict's URL; 0 for None.
find_proxy_by_dict(ps, proxy_dict) ==
    IF proxy_dict = NoneDict THEN 0
    ELSE LET proxy_url == IF proxy_dict.http # << >> THEN proxy_dict.http
                          ELSE proxy_dict.https
             Matches(i) ==
                 \/ IsSubstring(url(ps[i]), proxy_url)
                 \/ IsSubstring(ps[i].host \o <<":">> \o IntToStr(ps[i].port),
                                proxy_url)
         IN  IF \E i \in 1..Len(ps) : Matches(i)
             THEN CHOOSE i \in 1..Len(ps) :
                      Matches(i) /\ \A j \in 1..(i - 1) : ~Matches(j)
             ELSE 0

\* Variant of mark_proxy_success that leaves failure_count as it is.
mark_proxy_success_no_reset(ps, proxy_dict) ==
    LET i == find_proxy_by_dict(ps, proxy_dict)
    IN  IF i = 0 THEN ps
        ELSE [ps EXCEPT ![i].success_count = @ + 1]

\* Variant of mark_proxy_success that also re-enables the proxy.
mark_proxy_success_reenables(ps, proxy_dict) ==
    LET i == find_proxy_by_dict(ps, proxy_dict)
    IN  IF i = 0 THEN ps
        ELSE [ps EXCEPT ![i].success_count = @ + 1, ![i].failure_count = 0,
                        ![i].disabled_until = NoTime]

mark_proxy_success(ps, proxy_dict) ==
    LET i == find_proxy_by_dict(ps, proxy_dict)
    IN  IF i = 0 THEN ps
        ELSE [ps EXCEPT ![i].success_count = @ + 1, ![i].failure_count = 0]

\* Variant of disable_duration that counts the window backwards.
disable_duration_backwards(c) == 0 - 60 * c.disable_duration_minutes

\* timedelta(minutes=disable_duration_minutes), in seconds.
disable_duration(c) == 60 * c.disable_duration_minutes

\* Variant of mark_proxy_failed that counts the failure but never disables.
mark_proxy_failed_nodisable(ps, proxy_dict, c, t) ==
    LET i == find_proxy_by_dict(ps, proxy_dict)
    IN  IF i = 0 THEN ps
        ELSE [ps EXCEPT ![i].failure_count = @ + 1]

\* Variant of mark_proxy_failed that starts the count afresh when it
\* disables the proxy.
mark_proxy_failed_reset(ps, proxy_dict, c, t) ==
    LET i == find_proxy_by_dict(ps, proxy_dict)
    IN  IF i = 0 THEN ps
        ELSE LET fc == ps[i].failure_count + 1
             IN  IF fc >= c.failure_threshold
                 THEN [ps EXCEPT ![i].failure_count = 0,
                                 ![i].disabled_until = t + disable_duration(c)]
                 ELSE [ps EXCEPT ![i].failure_count = fc]

mark_proxy_failed(ps, proxy_dict, c, t) ==
    LET i == find_proxy_by_dict(ps, proxy_dict)
    IN  IF i = 0 THEN ps
        ELSE LET fc == ps[i].failure_count + 1
             IN  IF fc >= c.failure_threshold
                 THEN [ps EXCEPT ![i].failure_count = fc,
                                 ![i].disabled_until = t + disable_duration(c)]
                 ELSE [ps EXCEPT ![i].failure_count = fc]

(***************************************************************************)
(* Configuration (config.py:30-39 and the constructors' parameters).       *)
(***************************************************************************)
BACKOFF_FACTOR == 3
PROXY_DISABLE_DURATION == 30
CACHE_EXPIRY_DAYS == 7

Pools == UNION { [1..n -> {ProxyInfo(l) : l \in ProxyLines}] : n \in 0..MaxPool }

\* disable_duration_minutes is int(os.getenv('PROXY_DISABLE_DURATION', '30')),
\* which nothing validates: 0 is a value it can take.
DisableDurations == {0, PROXY_DISABLE_DURATION}

\* The zero duration is explored with the threshold that disables at the
\* first failure (and, in InitPool, with pools of at most one entry).
PoolConfigs ==
    { c \in [max_retries : {MaxRetriesBound},
             backoff_factor : {BACKOFF_FACTOR},
             failure_threshold : 1..MaxThreshold,
             disable_duration_minutes : DisableDurations,
             expiry_days : {CACHE_EXPIRY_DAYS},
             cache_enabled : {FALSE},
             has_manager : {TRUE}] :
        c.disable_duration_minutes = 0 => c.failure_threshold = 1 }

(***************************************************************************)
(* History of the pool operations, kept for stating the properties:        *)
(*   op, at        the last operation and the clock reading it ran at      *)
(*   sel           the entry the last get_next_proxy returned / the entry  *)
(*                 the last report was recorded on (0: none)               *)
(*   ret           the value the last get_next_proxy returned              *)
(*   arg           the entry whose dict was passed to the last report      *)
(*   pre, pre_index  the pool and the cursor before the last operation     *)
(*   run           the entries returned by the latest consecutive          *)
(*                 get_next_proxy calls that started with every entry      *)
(*                 available and had no failure reported in between        *)
(*   streak        per entry, failures recorded in a row since the last    *)
(*                 success or reset_all                                    *)
(*   disabled_at   per entry, time of the latest failure that made the     *)
(*                 streak reach failure_threshold (NoTime: never, or not   *)
(*                 since the last reset_all)                               *)
(***************************************************************************)
NoHist(ps) ==
    [op |-> "none", at |-> 0, sel |-> 0, ret |-> NoneDict, arg |-> 0,
     pre |-> ps, pre_index |-> 0, run |-> << >>,
     streak |-> [i \in 1..Len(ps) |-> 0],
     disabled_at |-> [i \in 1..Len(ps) |-> NoTime]]

NoCall ==
    [active |-> FALSE, done |-> FALSE, video_id |-> None, attempt |-> 0,
     result |-> None, raised |-> FALSE, cache_hit |-> FALSE,
     trace |-> << >>, pre |-> << >>, pre_cache |-> << >>, started_at |-> 0,
     ended_at |-> 0, phase |-> "none", current_proxy |-> NoneDict, sel |-> 0]

NoCount == [ops |-> 0, calls |-> 0, ticked |-> FALSE]

Keys == {"k1", "k2"}

\* A cache entry is {'transcript': str, 'timestamp': isoformat}; a key that
\* is not in the dict maps to NoEntry.
NoEntry == [absent |-> TRUE]

\* A dict iterates over its items in insertion order: the keys the dict
\* holds are kept, in that order, under Order, next to the entries.  A key
\* that is assigned again keeps its place, a deleted key leaves the order,
\* and json.dump / json.load write and read the items in this order.
Order == "<order>"

\* {}
EmptyDict ==
    [k \in Keys \cup {Order} |-> IF k = Order THEN << >> ELSE NoEntry]

\* The dict that json.load builds from a JSON object whose members are the
\* <<key, entry>> pairs of `items`, in the order of the text.  A key that
\* occurs again takes the later value and keeps the place of its first
\* occurrence.
DictOf(items) ==
    LET places == [i \in 1..Len(items) |-> i]
        firsts == SelectSeq(places, LAMBDA i :
                      \A j \in 1..(i - 1) : items[j][1] # items[i][1])
        last(k) == CHOOSE i \in 1..Len(items) :
                      /\ items[i][1] = k
                      /\ \A j \in (i + 1)..Len(items) : items[j][1] # k
    IN  [k \in Keys \cup {Order} |->
            IF k = Order THEN [n \in 1..Len(firsts) |-> items[firsts[n]][1]]
            ELSE IF \E i \in 1..Len(items) : items[i][1] = k
            THEN items[last(k)][2]
            ELSE NoEntry]

\* The cache file and the state of the file system under it: `file` is
\* what transcripts.json holds, `fault` what a write to it meets ("none":
\* the write goes through, "open": open() fails, "dump": json.dump fails
\* after open() has truncated the file).  NoDisk: no cache directory.
NoDisk == [file |-> [kind |-> "missing"], fault |-> "none"]

InitPool ==
    /\ cfg \in PoolConfigs
    /\ proxies \in Pools
    /\ cfg.disable_duration_minutes = 0 => Len(proxies) <= 1
    /\ current_index = 0
    /\ now = 0
    /\ cache = EmptyDict
    /\ disk = NoDisk
    /\ call = NoCall
    /\ hist = NoHist(proxies)
    /\ count = NoCount

AllAvailable(ps, t) == \A i \in 1..Len(ps) : is_available(ps[i], t)

LastN(s, n) == IF Len(s) <= n THEN s ELSE SubSeq(s, Len(s) - n + 1, Len(s))

\* get_next_proxy()
PoolGetNext ==
    /\ count.ops < MaxOps
    /\ LET r == get_next_proxy(proxies, current_index, now)
           started == IF AllAvailable(proxies, now) THEN hist.run ELSE << >>
       IN  /\ proxies' = r.proxies
           /\ current_index' = r.current_index
           /\ hist' = [hist EXCEPT !.op = "get", !.at = now, !.sel = r.sel,
                                   !.ret = r.ret, !.arg = 0,
                                   !.pre = proxies, !.pre_index = current_index,
                                   !.run = IF AllAvailable(proxies, now)
                                           THEN LastN(Append(started, r.sel),
                                                      Len(proxies))
                                           ELSE << >>]
    /\ count' = [count EXCEPT !.ops = @ + 1]
    /\ UNCHANGED <<cfg, now, cache, disk, call>>

\* mark_proxy_failed(d) for the dict d of pool entry i (a value that
\* get_next_proxy returns).
PoolMarkFailed(i) ==
    /\ count.ops < MaxOps
    /\ LET d == as_dict(proxies[i])
           j == find_proxy_by_dict(proxies, d)
           st == hist.streak[j] + 1
       IN  /\ proxies' = mark_proxy_failed(proxies, d, cfg, now)
           /\ hist' = [hist EXCEPT !.op = "failed", !.at = now, !.sel = j,
                                   !.arg = i,
                                   !.pre = proxies, !.pre_index = current_index,
                                   !.run = << >>,
                                   !.streak[j] = st,
                                   !.disabled_at[j] =
                                       IF st >= cfg.failure_threshold
                                       THEN now ELSE @]
    /\ count' = [count EXCEPT !.ops = @ + 1]
    /\ UNCHANGED <<cfg, current_index, now, cache, disk, call>>

\* mark_proxy_success(d) for the dict d of pool entry i.
PoolMarkSuccess(i) ==
    /\ count.ops < MaxOps
    /\ LET d == as_dict(proxies[i])
           j == find_proxy_by_dict(proxies, d)
       IN  /\ proxies' = mark_proxy_success(proxies, d)
           /\ hist' = [hist EXCEPT !.op = "success", !.at = now, !.sel = j,
                                   !.arg = i,
                                   !.pre = proxies, !.pre_index = current_index,
                                   !.streak[j] = 0]
    /\ count' = [count EXCEPT !.ops = @ + 1]
    /\ UNCHANGED <<cfg, current_index, now, cache, disk, call>>

\* reset_all() (proxy_manager.py:321-327)
reset_all(ps) ==
    [i \in 1..Len(ps) |->
        [ps[i] EXCEPT !.failure_count = 0, !.success_count = 0,
                      !.disabled_until = NoTime]]

PoolResetAll ==
    /\ count.ops < MaxOps
    /\ proxies' = reset_all(proxies)
    /\ hist' = [hist EXCEPT !.op = "reset", !.at = now, !.sel = 0, !.arg = 0,
                            !.pre = proxies, !.pre_index = current_index,
                            !.streak = [i \in 1..Len(proxies) |-> 0],
                            !.disabled_at = [i \in 1..Len(proxies) |-> NoTime]]
    /\ count' = [count EXCEPT !.ops = @ + 1]
    /\ UNCHANGED <<cfg, current_index, now, cache, disk, call>>

\* The clock advances between two pool operations: by half a disable
\* window, so that a window is seen running, ending (now = disabled_until)
\* and elapsed.
PoolTickSteps == {(60 * PROXY_DISABLE_DURATION) \div 2}

PoolTick(d) ==
    /\ count.ops < MaxOps
    /\ now' = now + d
    /\ hist' = [hist EXCEPT !.op = "tick", !.at = now, !.sel = 0, !.arg = 0,
                            !.pre = proxies, !.pre_index = current_index]
    /\ count' = [count EXCEPT !.ops = @ + 1]
    /\ UNCHANGED <<cfg, proxies, current_index, cache, disk, call>>

NextPool ==
    \/ PoolGetNext
    \/ \E i \in 1..Len(proxies) : PoolMarkFailed(i)
    \/ \E i \in 1..Len(proxies) : PoolMarkSuccess(i)
    \/ PoolResetAll
    \/ \E d \in PoolTickSteps : PoolTick(d)

SpecPool == InitPool /\ [][NextPool]_vars

(***************************************************************************)
(* TranscriptCache (transcript_cache.py).  The dict is a function on Keys  *)
(* with its iteration order under Order;                                   *)
(* a timestamp is stored as the text datetime.isoformat() gives and read   *)
(* back with datetime.fromisoformat().  An operation that raises reports   *)
(* the class of the exception in `exc` (NoExc: it returned).               *)
(***************************************************************************)
SECONDS_PER_DAY == 86400

NoExc == "<no exception>"

isoformat(t) == [date |-> t \div SECONDS_PER_DAY, time |-> t % SECONDS_PER_DAY]

\* Whether a stored text is one that datetime.fromisoformat() parses.
IsIsoformat(s) == DOMAIN s = {"date", "time"}

fromisoformat(s) == s.date * SECONDS_PER_DAY + s.time

\* Entries a cache file can hold that set() did not write: a dict without
\* 'timestamp', a dict whose 'timestamp' is no ISO text, and a JSON string
\* in the place of the dict.
MalformedEntries ==
    { [transcript |-> "ok"],
      [transcript |-> "ok", timestamp |-> [text |-> "garbage"]],
      [str |-> "ok"] }

\* The exception that datetime.fromisoformat(entry['timestamp']) raises
\* (lines 71, 104, 135): TypeError for a str entry, KeyError for a missing
\* key, ValueError for a text that is no timestamp.
timestamp_error(entry) ==
    IF "str" \in DOMAIN entry THEN "TypeError"
    ELSE IF "timestamp" \notin DOMAIN entry THEN "KeyError"
    ELSE IF ~IsIsoformat(entry.timestamp) THEN "ValueError"
    ELSE NoExc

\* Variant of is_expired that compares with >=.
is_expired_at_boundary(entry, expiry_days, t) ==
    t >= fromisoformat(entry.timestamp) + expiry_days * SECONDS_PER_DAY

\* `now > cached_time + timedelta(days=self.expiry_days)` (lines 71-74,
\* 104-107, 135-137).
is_expired(entry, expiry_days, t) ==
    t > fromisoformat(entry.timestamp) + expiry_days * SECONDS_PER_DAY

\* _load_cache: the dict a constructor reads from the file.
load_cache(file) ==
    IF file.kind = "json" THEN file.value ELSE EmptyDict

\* _save_cache: the disk after the dict c was written; a failure of open()
\* or of json.dump() is caught and logged.
save_cache(c, d) ==
    CASE d.fault = "none" -> [d EXCEPT !.file = [kind |-> "json", value |-> c]]
      [] d.fault = "open" -> d
      [] d.fault = "dump" -> [d EXCEPT !.file = [kind |-> "invalid_json"]]

\* Variant of cache_get that leaves an expired entry in the dict.
cache_get_no_evict(c, video_id, expiry_days, t) ==
    IF c[video_id] = NoEntry
    THEN [cache |-> c, ret |-> None, exc |-> NoExc, saved |-> FALSE]
    ELSE LET entry == c[video_id]
         IN  IF timestamp_error(entry) # NoExc
             THEN [cache |-> c, ret |-> None, exc |-> timestamp_error(entry),
                   saved |-> FALSE]
             ELSE IF is_expired(entry, expiry_days, t)
             THEN [cache |-> c, ret |-> None, exc |-> NoExc, saved |-> FALSE]
             ELSE [cache |-> c, ret |-> entry.transcript, exc |-> NoExc,
                   saved |-> FALSE]

\* Variant of cache_get that evicts every entry when the requested one is
\* missing or has expired.
cache_get_evict_all(c, video_id, expiry_days, t) ==
    IF c[video_id] = NoEntry
    THEN [cache |-> EmptyDict, ret |-> None, exc |-> NoExc, saved |-> TRUE]
    ELSE LET entry == c[video_id]
         IN  IF timestamp_error(entry) # NoExc
             THEN [cache |-> c, ret |-> None, exc |-> timestamp_error(entry),
                   saved |-> FALSE]
             ELSE IF is_expired(entry, expiry_days, t)
             THEN [cache |-> EmptyDict, ret |-> None, exc |-> NoExc,
                   saved |-> TRUE]
             ELSE IF "transcript" \notin DOMAIN entry
             THEN [cache |-> c, ret |-> None, exc |-> "KeyError",
                   saved |-> FALSE]
             ELSE [cache |-> c, ret |-> entry.transcript, exc |-> NoExc,
                   saved |-> FALSE]

\* get(): the dict after the call, the value returned, the exception
\* raised and whether _save_cache was called.
cache_get(c, video_id, expiry_days, t) ==
    IF c[video_id] = NoEntry
    THEN [cache |-> c, ret |-> None, exc |-> NoExc, saved |-> FALSE]
    ELSE LET entry == c[video_id]
         IN  IF timestamp_error(entry) # NoExc
             THEN [cache |-> c, ret |-> None, exc |-> timestamp_error(entry),
                   saved |-> FALSE]
             ELSE IF is_expired(entry, expiry_days, t)
             THEN [cache |-> [c EXCEPT ![video_id] = NoEntry,
                                       ![Order] = SelectSeq(@, LAMBDA k :
                                                      k # video_id)],
                   ret |-> None, exc |-> NoExc, saved |-> TRUE]
             ELSE IF "transcript" \notin DOMAIN entry
             THEN [cache |-> c, ret |-> None, exc |-> "KeyError",
                   saved |-> FALSE]
             ELSE [cache |-> c, ret |-> entry.transcript, exc |-> NoExc,
                   saved |-> FALSE]

\* Variant of cache_set that keeps the entry a key already has.
cache_set_keep_existing(c, video_id, transcript, t) ==
    IF c[video_id] # NoEntry THEN c
    ELSE [c EXCEPT ![video_id] =
             [transcript |-> transcript, timestamp |-> isoformat(t)],
                   ![Order] = Append(@, video_id)]

\* set(): the dict after the call; _save_cache follows.  A new key goes to
\* the end of the dict, a key the dict holds keeps its place.
cache_set(c, video_id, transcript, t) ==
    [c EXCEPT ![video_id] =
        [transcript |-> transcript, timestamp |-> isoformat(t)],
              ![Order] = IF c[video_id] = NoEntry THEN Append(@, video_id)
                         ELSE @]

\* The keys the dict holds.
Held(c) == { k \in Keys : c[k] # NoEntry }

\* The place, in iteration order, of the first item whose timestamp
\* datetime.fromisoformat(entry['timestamp']) does not read; 0 when every
\* item has one.
first_malformed(c) ==
    LET bad == { i \in 1..Len(c[Order]) :
                     timestamp_error(c[c[Order][i]]) # NoExc }
    IN  IF bad = {} THEN 0 ELSE CHOOSE i \in bad : \A j \in bad : i <= j

\* cleanup(): the loop over self.cache.items() raises at the first
\* malformed entry it meets, before anything is deleted.
cache_cleanup(c, expiry_days, t) ==
    IF first_malformed(c) # 0
    THEN [cache |-> c, saved |-> FALSE,
          exc |-> timestamp_error(c[c[Order][first_malformed(c)]])]
    ELSE LET expired_keys == { k \in Held(c) : is_expired(c[k], expiry_days, t) }
         IN  [cache |-> [k \in Keys \cup {Order} |->
                            IF k = Order
                            THEN SelectSeq(c[Order], LAMBDA x :
                                               x \notin expired_keys)
                            ELSE IF k \in expired_keys THEN NoEntry
                            ELSE c[k]],
              saved |-> expired_keys # {},
              exc |-> NoExc]

NoStats == [total_entries |-> -1, valid_entries |-> -1, expired_entries |-> -1]

\* stats(): the loop over self.cache.values() raises at the first malformed
\* entry it meets.
cache_stats(c, expiry_days, t) ==
    IF first_malformed(c) # 0
    THEN [ret |-> NoStats,
          exc |-> timestamp_error(c[c[Order][first_malformed(c)]])]
    ELSE LET total_entries == Len(c[Order])
             expired_count ==
                 Cardinality({ k \in Held(c) : is_expired(c[k], expiry_days, t) })
         IN  [ret |-> [total_entries |-> total_entries,
                       valid_entries |-> total_entries - expired_count,
                       expired_entries |-> expired_count],
              exc |-> NoExc]

(***************************************************************************)
(* Outcomes of one network attempt (youtube_client.py:231-262): the        *)
(* transcript text, or an exception.  An exception is its class, its       *)
(* status_code attribute (NoAttr when it has none) and the phrases that    *)
(* str(e) contains.                                                        *)
(***************************************************************************)
NoAttr == -1

Texts == {"", "ok"}

\* Truth value of an Optional[str] in an `if`.
Truthy(x) == x # None /\ x # ""

AbsenceClasses == {"TranscriptsDisabled", "NoTranscriptFound"}

\* Classes that derive from Exception.
ExceptionClasses ==
    AbsenceClasses
        \cup {"RequestBlocked", "HTTPError", "ConnectionError",
              "IPBlockingError", "RateLimitError"}

Exc(cls, status, msg) == [cls |-> cls, status_code |-> status, msg |-> msg]

Exceptions ==
    { Exc("TranscriptsDisabled", NoAttr, {}),
      Exc("NoTranscriptFound", NoAttr, {}),
      Exc("RequestBlocked", NoAttr, {"blocking", "cloud provider"}),
      Exc("HTTPError", NoAttr, {"403", "Forbidden"}),
      Exc("HTTPError", NoAttr, {"429", "Too Many Requests"}),
      Exc("HTTPError", 429, {}),
      Exc("ConnectionError", NoAttr, {"timed out"}) }

\* A transcript track of a video, as api.list() reports it.
Track(code, generated) == [language_code |-> code, is_generated |-> generated]

NoTrack == [language_code |-> None, is_generated |-> FALSE]

\* The track lists of the videos that have a track: ja (generated) and en,
\* en only (generated), and a video whose only track is in another language.
TrackLists ==
    { {Track("ja", TRUE), Track("en", FALSE)},
      {Track("en", TRUE)},
      {Track("fr", FALSE)} }

\* TranscriptList.find_transcript(codes): for each code in order, the
\* manually created track of that language, else the generated one;
\* NoTrack stands for raising NoTranscriptFound.
RECURSIVE find_transcript(_, _)
find_transcript(tracks, codes) ==
    IF codes = << >> THEN NoTrack
    ELSE IF Track(Head(codes), FALSE) \in tracks THEN Track(Head(codes), FALSE)
    ELSE IF Track(Head(codes), TRUE) \in tracks THEN Track(Head(codes), TRUE)
    ELSE find_transcript(tracks, Tail(codes))

\* TranscriptList.find_generated_transcript(codes)
RECURSIVE find_generated_transcript(_, _)
find_generated_transcript(tracks, codes) ==
    IF codes = << >> THEN NoTrack
    ELSE IF Track(Head(codes), TRUE) \in tracks THEN Track(Head(codes), TRUE)
    ELSE find_generated_transcript(tracks, Tail(codes))

\* Lines 239-251: ja, then en, then a generated ja or en track.
select_transcript(tracks) ==
    IF find_transcript(tracks, <<"ja">>) # NoTrack
    THEN find_transcript(tracks, <<"ja">>)
    ELSE IF find_transcript(tracks, <<"en">>) # NoTrack
    THEN find_transcript(tracks, <<"en">>)
    ELSE find_generated_transcript(tracks, <<"ja", "en">>)

\* What the network gives one attempt: a transcript text, an exception, or
\* (`listed`) the track list of the video, every track of which fetches
\* the text "ok".
Outcomes ==
    { [ok |-> TRUE, text |-> x] : x \in Texts }
        \cup { [ok |-> FALSE, exc |-> e] : e \in Exceptions }
        \cup { [listed |-> tl] : tl \in TrackLists }

Listed(o) == IF "listed" \in DOMAIN o THEN o.listed ELSE {}

\* Lines 236-262 for a listed outcome: the text of the selected track, or
\* the NoTranscriptFound that the last lookup raises.
Resolve(o) ==
    IF "listed" \in DOMAIN o
    THEN LET tr == select_transcript(o.listed)
         IN  IF tr = NoTrack
             THEN [ok |-> FALSE, exc |-> Exc("NoTranscriptFound", NoAttr, {}),
                   lang |-> None]
             ELSE [ok |-> TRUE, text |-> "ok", lang |-> tr.language_code]
    ELSE IF o.ok THEN [ok |-> TRUE, text |-> o.text, lang |-> None]
    ELSE [ok |-> FALSE, exc |-> o.exc, lang |-> None]

\* str.lower() on the phrases of a message.
Lower(msg) ==
    { CASE x = "Too Many Requests" -> "too many requests"
        [] x = "Forbidden" -> "forbidden"
        [] x = "Rate limit exceeded" -> "rate limit exceeded"
        [] x = "Retry after" -> "retry after"
        [] OTHER -> x : x \in msg }

\* The except clause that catches e (youtube_client.py:275, 279).
Handler(e) ==
    IF e.cls \in AbsenceClasses THEN "absence"
    ELSE IF e.cls \in ExceptionClasses THEN "general"
    ELSE "propagate"

\* youtube_client.py:284-290; NoAttr stands for None.
http_status(e) ==
    IF e.status_code # NoAttr THEN e.status_code
    ELSE IF "429" \in e.msg \/ "Too Many Requests" \in e.msg THEN 429
    ELSE IF "403" \in e.msg \/ "Forbidden" \in e.msg THEN 403
    ELSE NoAttr

\* youtube_client.py:300
is_ip_blocking(e) ==
    \/ "blocking" \in Lower(e.msg)
    \/ "cloud provider" \in Lower(e.msg)
    \/ http_status(e) = 403

\* The branch of get_transcript that handles e.
Classify(e) ==
    IF Handler(e) = "absence" THEN "absence"
    ELSE IF Handler(e) = "propagate" THEN "propagate"
    ELSE IF is_ip_blocking(e) THEN "ip_blocking"
    ELSE IF http_status(e) = 429 THEN "rate_limit"
    ELSE "transient"

RATE_LIMIT_WAIT == 60
BASE_WAIT == 5

RECURSIVE Pow(_, _)
Pow(b, n) == IF n = 0 THEN 1 ELSE b * Pow(b, n - 1)

(***************************************************************************)
(* YouTubeClient.get_transcript (youtube_client.py:180-346), one action    *)
(* for the cache check and, per iteration of the retry loop, one for each  *)
(* stretch of code between two points at which the call blocks.            *)
(*                                                                         *)
(* `call` holds the position of the running call (active, video_id,        *)
(* attempt, phase, and inside the network calls the proxy in use:          *)
(* current_proxy, sel) and what it did so far: per network attempt the     *)
(* pool entry                                                              *)
(* used (`sel`, 0 for a direct request), the kind of outcome, the track    *)
(* list the video showed and the language selected from it, the report     *)
(* made to the pool (`report`) and the entry the report was recorded on    *)
(* (`reported`), the time the network took (`took`) and the length of the  *)
(* sleep that followed (`slept`, NoSleep: none);                           *)
(* started_at and ended_at are the clock readings at entry and at the end  *)
(* of the latest iteration, pre and pre_cache the pool and the cache dict  *)
(* at entry.                                                               *)
(***************************************************************************)
NoSleep == -1

\* The pools of the fetch runs: none, one entry, and two entries whose
\* "host:port" texts contain one another, in both orders.
FetchPools ==
    { ps \in Pools :
        /\ Len(ps) <= 2
        /\ Len(ps) >= 1 => ps[1].port = 80 \/ Len(ps) = 2
        /\ Len(ps) = 2 => ps[1].port # ps[2].port }

\* The retry budgets of the fetch runs: no attempt, one attempt, and one
\* retry.
RetryBudgets == {0, 1, 2}

FetchConfigs ==
    [max_retries : RetryBudgets,
     backoff_factor : {BACKOFF_FACTOR},
     failure_threshold : {MaxThreshold},
     disable_duration_minutes : {PROXY_DISABLE_DURATION},
     expiry_days : {CACHE_EXPIRY_DAYS},
     cache_enabled : BOOLEAN,
     has_manager : BOOLEAN]

\* The dicts _load_cache can read from the file a previous run left
\* (transcript_cache.py:33-45); json.load keeps any mapping.  An entry for
\* k1 that set() wrote at time 0, an entry for k1 that set() did not write,
\* a file that gives k1 twice, and two malformed entries, for k1 and k2, in
\* either order.
LoadedCaches ==
    { DictOf(<< <<"k1", [transcript |-> x, timestamp |-> isoformat(0)]>> >>)
        : x \in Texts }
        \cup { DictOf(<< <<"k1", e>> >>) : e \in MalformedEntries }
        \cup { DictOf(<< <<"k1", [transcript |-> "ok"]>>,
                         <<"k1", [str |-> "ok"]>> >>) }
        \cup { DictOf(<< <<"k1", [transcript |-> "ok"]>>,
                         <<"k2", [str |-> "ok"]>> >>),
               DictOf(<< <<"k2", [str |-> "ok"]>>,
                         <<"k1", [transcript |-> "ok"]>> >>) }

Init ==
    /\ cfg \in FetchConfigs
    /\ proxies \in FetchPools
    /\ cfg.has_manager \/ proxies = << >>
    /\ current_index = 0
    /\ now = 0
    /\ cache \in IF cfg.cache_enabled THEN LoadedCaches
                 ELSE {EmptyDict}
    /\ disk = IF cfg.cache_enabled
              THEN [file |-> [kind |-> "json", value |-> cache], fault |-> "none"]
              ELSE NoDisk
    /\ call = NoCall
    /\ hist = NoHist(proxies)
    /\ count = NoCount

\* Lines 192-200: the cache lookup, and the loop entry.
StartCall(video_id) ==
    /\ ~call.active
    /\ count.calls < MaxCalls
    /\ LET g == IF cfg.cache_enabled
                THEN cache_get(cache, video_id, cfg.expiry_days, now)
                ELSE [cache |-> cache, ret |-> None, exc |-> NoExc,
                      saved |-> FALSE]
           hit == cfg.cache_enabled /\ Truthy(g.ret)
           fresh == [NoCall EXCEPT !.video_id = video_id, !.pre = proxies,
                                   !.pre_cache = cache, !.started_at = now,
                                   !.ended_at = now]
       IN  /\ cache' = g.cache
           /\ disk' = IF g.saved THEN save_cache(g.cache, disk) ELSE disk
           /\ call' = IF g.exc # NoExc
                      THEN [fresh EXCEPT !.done = TRUE, !.raised = TRUE]
                      ELSE IF hit
                      THEN [fresh EXCEPT !.done = TRUE, !.result = g.ret,
                                         !.cache_hit = TRUE]
                      ELSE IF cfg.max_retries <= 0
                      THEN [fresh EXCEPT !.done = TRUE, !.result = None]
                      ELSE [fresh EXCEPT !.active = TRUE, !.phase = "select"]
    /\ count' = [count EXCEPT !.calls = @ + 1, !.ticked = FALSE]
    /\ UNCHANGED <<cfg, proxies, current_index, now, hist>>

\* Variant of report_for that reports an absence as a proxy failure.
report_for_absence_failed(kind, use_proxy) ==
    IF ~use_proxy THEN "none"
    ELSE IF kind = "success" THEN "success"
    ELSE IF kind \in {"ip_blocking", "rate_limit", "absence"} THEN "failed"
    ELSE "none"

\* Variant of report_for that reports a transient failure to the pool.
report_for_transient_failed(kind, use_proxy) ==
    IF ~use_proxy THEN "none"
    ELSE IF kind = "success" THEN "success"
    ELSE IF kind \in {"ip_blocking", "rate_limit", "transient"} THEN "failed"
    ELSE "none"

\* The report an attempt makes to the pool (lines 269-270, 307-308,
\* 318-319); use_proxy is `self.proxy_manager and current_proxy`.
report_for(kind, use_proxy) ==
    IF ~use_proxy THEN "none"
    ELSE IF kind = "success" THEN "success"
    ELSE IF kind \in {"ip_blocking", "rate_limit"} THEN "failed"
    ELSE "none"

\* Variant of retry_after that tests `attempt < self.max_retries`.
retry_after_off_by_one(kind, attempt, c, ps) ==
    CASE kind = "ip_blocking" ->
            c.has_manager /\ has_proxies(ps) /\ attempt < c.max_retries
      [] kind \in {"rate_limit", "transient"} -> attempt < c.max_retries
      [] OTHER -> FALSE

\* Whether the loop goes on to another iteration after an attempt of this
\* kind (lines 273, 277, 310-313, 321-330, 332-344).
retry_after(kind, attempt, c, ps) ==
    CASE kind = "ip_blocking" ->
            c.has_manager /\ has_proxies(ps) /\ attempt < c.max_retries - 1
      [] kind \in {"rate_limit", "transient"} -> attempt < c.max_retries - 1
      [] OTHER -> FALSE

\* Variant of sleep_after that takes the rate-limit wait after every
\* rate-limited attempt.
sleep_after_always_on_429(kind, attempt, c) ==
    CASE kind = "rate_limit" -> RATE_LIMIT_WAIT
      [] kind = "transient" /\ attempt < c.max_retries - 1 ->
            BASE_WAIT * Pow(c.backoff_factor, attempt)
      [] OTHER -> NoSleep

\* Variant of sleep_after that backs off after the final attempt as well.
sleep_after_final_too(kind, attempt, c) ==
    CASE kind = "rate_limit" /\ attempt < c.max_retries - 1 -> 60
      [] kind = "transient" -> 5 * c.backoff_factor
      [] OTHER -> -1

\* The time.sleep() that follows an attempt of this kind (lines 321-327,
\* 332-338); NoSleep when there is none.
sleep_after(kind, attempt, c) ==
    CASE kind = "rate_limit" /\ attempt < c.max_retries - 1 -> RATE_LIMIT_WAIT
      [] kind = "transient" /\ attempt < c.max_retries - 1 ->
            BASE_WAIT * Pow(c.backoff_factor, attempt)
      [] OTHER -> NoSleep

\* The time the blocking network calls of one attempt take (api.list(),
\* transcript.fetch(); lines 236, 254): none, or three seconds.
Latencies == {0, 3}

\* One iteration of `for attempt in range(self.max_retries)` takes up to
\* three steps, between which the call blocks: AttemptSelect, then the
\* network calls, AttemptAnswer, then (when the iteration sleeps)
\* time.sleep, AttemptSleep.  `call.phase` is where the iteration is:
\* "select" at the top of the loop, "network" inside api.list() /
\* transcript.fetch(), "sleep" inside time.sleep().

\* Lines 200-234: the proxy of the attempt is taken from the pool.
AttemptSelect ==
    /\ call.active
    /\ call.phase = "select"
    /\ LET use_pool == cfg.has_manager /\ has_proxies(proxies)
           g == IF use_pool
                THEN get_next_proxy(proxies, current_index, now)
                ELSE [proxies |-> proxies, current_index |-> current_index,
                      ret |-> NoneDict, sel |-> 0]
       IN  /\ proxies' = g.proxies
           /\ current_index' = g.current_index
           /\ call' = [call EXCEPT !.phase = "network",
                                   !.current_proxy = g.ret,
                                   !.sel = g.sel]
    /\ UNCHANGED <<cfg, now, cache, disk, hist, count>>

\* Lines 236-344 up to the sleep: the network answers with outcome o after
\* `latency` seconds; the text is cached, the report is made to the pool,
\* and the iteration returns, goes on to the next one, or enters its sleep.
AttemptAnswer(outcome, latency) ==
    /\ call.active
    /\ call.phase = "network"
    /\ LET o == Resolve(outcome)
           t == now + latency
           attempt == call.attempt
           current_proxy == call.current_proxy
           kind == IF o.ok THEN "success" ELSE Classify(o.exc)
           report == report_for(kind, cfg.has_manager /\ current_proxy # NoneDict)
           ps == IF report = "success"
                 THEN mark_proxy_success(proxies, current_proxy)
                 ELSE IF report = "failed"
                 THEN mark_proxy_failed(proxies, current_proxy, cfg, t)
                 ELSE proxies
           retry == retry_after(kind, attempt, cfg, ps)
           wait == sleep_after(kind, attempt, cfg)
           entry == [sel |-> call.sel, kind |-> kind,
                     listed |-> Listed(outcome), lang |-> o.lang,
                     report |-> report,
                     reported |-> IF report = "none" THEN 0
                                  ELSE find_proxy_by_dict(proxies, current_proxy),
                     took |-> latency, slept |-> wait]
       IN  /\ proxies' = ps
           /\ cache' = IF kind = "success" /\ cfg.cache_enabled
                       THEN cache_set(cache, call.video_id, o.text, t)
                       ELSE cache
           /\ disk' = IF kind = "success" /\ cfg.cache_enabled
                      THEN save_cache(cache', disk)
                      ELSE disk
           /\ now' = t
           /\ call' = [call EXCEPT
                          !.trace = Append(@, entry),
                          !.ended_at = t,
                          !.attempt = IF retry /\ wait = NoSleep
                                      THEN attempt + 1 ELSE attempt,
                          !.phase = IF ~retry THEN "none"
                                    ELSE IF wait = NoSleep THEN "select"
                                    ELSE "sleep",
                          !.current_proxy = NoneDict,
                          !.sel = 0,
                          !.active = retry,
                          !.done = ~retry,
                          !.raised = (kind = "propagate"),
                          !.result = IF kind = "success" THEN o.text ELSE None]
    /\ UNCHANGED <<cfg, current_index, hist, count>>

\* Lines 327 and 338: time.sleep returns and the loop goes on.
AttemptSleep ==
    /\ call.active
    /\ call.phase = "sleep"
    /\ now' = now + call.trace[Len(call.trace)].slept
    /\ call' = [call EXCEPT !.ended_at = now',
                            !.attempt = @ + 1,
                            !.phase = "select"]
    /\ UNCHANGED <<cfg, proxies, current_index, cache, disk, hist, count>>

\* The clock advances before a call, to just past the cache's expiry
\* window (and so past every disable window).
TickSteps == {SECONDS_PER_DAY * CACHE_EXPIRY_DAYS + 1}

Tick(d) ==
    /\ ~call.active
    /\ count.calls < MaxCalls
    /\ ~count.ticked
    /\ now' = now + d
    /\ count' = [count EXCEPT !.ticked = TRUE]
    /\ UNCHANGED <<cfg, proxies, current_index, cache, disk, call, hist>>

Next ==
    \/ \E k \in Keys : StartCall(k)
    \/ AttemptSelect
    \/ \E o \in Outcomes, l \in Latencies : AttemptAnswer(o, l)
    \/ AttemptSleep
    \/ \E d \in TickSteps : Tick(d)

Spec == Init /\ [][Next]_vars

(***************************************************************************)
(* Runs of the cache alone (SpecCache): a TranscriptCache constructed over *)
(* whatever file a previous run left, then set / get / cleanup / stats     *)
(* calls and clock advances; before them, get_transcript calls of a        *)
(* client that makes no network attempt (max_retries = 0).                 *)
(*                                                                         *)
(* History of the cache operations, kept for stating the properties:       *)
(*   op, at, key, text   the last operation, the clock reading it ran at   *)
(*                       and its arguments                                 *)
(*   ret, stats, exc     what it returned, or the exception it raised      *)
(*   evicted             whether it deleted the entry of `key`             *)
(*   pre, pre_file       the dict and the file before it                   *)
(*   prev                op, key, text, at and evicted of the operation    *)
(*                       before it                                         *)
(*   loaded              the file the constructor read                     *)
(***************************************************************************)
CacheConfigs ==
    [max_retries : {0},
     backoff_factor : {BACKOFF_FACTOR},
     failure_threshold : {MaxThreshold},
     disable_duration_minutes : {PROXY_DISABLE_DURATION},
     expiry_days : {CACHE_EXPIRY_DAYS},
     cache_enabled : {TRUE},
     has_manager : {FALSE}]

\* What transcripts.json can hold when the cache is constructed: nothing
\* (no file), bytes that cannot be read, text that is no JSON, a mapping
\* that set() wrote, or a mapping with an entry that set() did not write.
CacheFiles ==
    { [kind |-> "missing"], [kind |-> "unreadable"], [kind |-> "invalid_json"] }
        \cup { [kind |-> "json", value |-> m] : m \in LoadedCaches }

DiskFaults == {"none", "open", "dump"}

NoPrev == [op |-> "none", key |-> None, text |-> None, at |-> 0,
           evicted |-> FALSE]

NoCacheHist(file) ==
    [op |-> "none", at |-> 0, key |-> None, text |-> None,
     ret |-> None, stats |-> NoStats, exc |-> NoExc, evicted |-> FALSE,
     pre |-> load_cache(file), pre_file |-> file,
     prev |-> NoPrev, loaded |-> file]

\* The record of the operation that is now the previous one.
Shift(h) == [op |-> h.op, key |-> h.key, text |-> h.text, at |-> h.at,
             evicted |-> h.evicted]

InitCache ==
    /\ cfg \in CacheConfigs
    /\ proxies = << >>
    /\ current_index = 0
    /\ now = 0
    /\ disk \in [file : CacheFiles, fault : DiskFaults]
    /\ cache = load_cache(disk.file)
    /\ call = NoCall
    /\ hist = NoCacheHist(disk.file)
    /\ count = NoCount

\* set(video_id, transcript)
CacheSet(video_id, transcript) ==
    /\ count.ops < MaxCacheOps
    /\ cache' = cache_set(cache, video_id, transcript, now)
    /\ disk' = save_cache(cache', disk)
    /\ hist' = [hist EXCEPT !.op = "set", !.at = now, !.key = video_id,
                            !.text = transcript, !.ret = None,
                            !.stats = NoStats, !.exc = NoExc,
                            !.evicted = FALSE,
                            !.pre = cache, !.pre_file = disk.file,
                            !.prev = Shift(hist)]
    /\ count' = [count EXCEPT !.ops = @ + 1]
    /\ UNCHANGED <<cfg, proxies, current_index, now, call>>

\* get(video_id)
CacheGet(video_id) ==
    /\ count.ops < MaxCacheOps
    /\ LET g == cache_get(cache, video_id, cfg.expiry_days, now)
       IN  /\ cache' = g.cache
           /\ disk' = IF g.saved THEN save_cache(g.cache, disk) ELSE disk
           /\ hist' = [hist EXCEPT !.op = "get", !.at = now, !.key = video_id,
                                   !.text = None, !.ret = g.ret,
                                   !.stats = NoStats, !.exc = g.exc,
                                   !.evicted = g.saved,
                                   !.pre = cache, !.pre_file = disk.file,
                                   !.prev = Shift(hist)]
    /\ count' = [count EXCEPT !.ops = @ + 1]
    /\ UNCHANGED <<cfg, proxies, current_index, now, call>>

\* cleanup()
CacheCleanup ==
    /\ count.ops < MaxCacheOps
    /\ LET g == cache_cleanup(cache, cfg.expiry_days, now)
       IN  /\ cache' = g.cache
           /\ disk' = IF g.saved THEN save_cache(g.cache, disk) ELSE disk
           /\ hist' = [hist EXCEPT !.op = "cleanup", !.at = now, !.key = None,
                                   !.text = None, !.ret = None,
                                   !.stats = NoStats, !.exc = g.exc,
                                   !.evicted = FALSE,
                                   !.pre = cache, !.pre_file = disk.file,
                                   !.prev = Shift(hist)]
    /\ count' = [count EXCEPT !.ops = @ + 1]
    /\ UNCHANGED <<cfg, proxies, current_index, now, call>>

\* clear() (transcript_cache.py:117-121)
cache_clear == EmptyDict

CacheClear ==
    /\ count.ops < MaxCacheOps
    /\ cache' = cache_clear
    /\ disk' = save_cache(cache', disk)
    /\ hist' = [hist EXCEPT !.op = "clear", !.at = now, !.key = None,
                            !.text = None, !.ret = None,
                            !.stats = NoStats, !.exc = NoExc,
                            !.evicted = FALSE,
                            !.pre = cache, !.pre_file = disk.file,
                            !.prev = Shift(hist)]
    /\ count' = [count EXCEPT !.ops = @ + 1]
    /\ UNCHANGED <<cfg, proxies, current_index, now, call>>

\* stats()
CacheStats ==
    /\ count.ops < MaxCacheOps
    /\ LET g == cache_stats(cache, cfg.expiry_days, now)
       IN  hist' = [hist EXCEPT !.op = "stats", !.at = now, !.key = None,
                                !.text = None, !.ret = None,
                                !.stats = g.ret, !.exc = g.exc,
                                !.evicted = FALSE,
                                !.pre = cache, !.pre_file = disk.file,
                                !.prev = Shift(hist)]
    /\ count' = [count EXCEPT !.ops = @ + 1]
    /\ UNCHANGED <<cfg, proxies, current_index, now, cache, disk, call>>

\* The clock advances between two cache operations: by the expiry window
\* exactly, or to just past it.
CacheTickSteps ==
    {SECONDS_PER_DAY * CACHE_EXPIRY_DAYS, SECONDS_PER_DAY * CACHE_EXPIRY_DAYS + 1}

CacheTick(d) ==
    /\ count.ops < MaxCacheOps
    /\ hist.op # "tick"
    /\ now' = now + d
    /\ hist' = [hist EXCEPT !.op = "tick", !.at = now, !.key = None,
                            !.text = None, !.ret = None, !.stats = NoStats,
                            !.exc = NoExc, !.evicted = FALSE,
                            !.pre = cache, !.pre_file = disk.file,
                            !.prev = Shift(hist)]
    /\ count' = [count EXCEPT !.ops = @ + 1]
    /\ UNCHANGED <<cfg, proxies, current_index, cache, disk, call>>

NextCache ==
    \/ \E k \in Keys, x \in Texts : CacheSet(k, x)
    \/ \E k \in Keys : CacheGet(k)
    \/ CacheCleanup
    \/ CacheClear
    \/ CacheStats
    \/ \E d \in CacheTickSteps : CacheTick(d)
    \/ \E k \in Keys : count.ops = 0 /\ StartCall(k)

SpecCache == InitCache /\ [][NextCache]_vars

(***************************************************************************)
(* RetryHandler (retry_handler.py) and the exceptions of exceptions.py.    *)
(* SpecRetry runs execute_with_retry on a function whose calls return a    *)
(* text or raise; `call` holds the position of the run (active, attempt),  *)
(* per failed call that is retried the exception and the wait computed     *)
(* for it (`trace`), and the way the run ended: the value returned, or the *)
(* exception raised (NoExc: none).                                         *)
(***************************************************************************)
DEFAULT_WAIT_TIME == 5
RATE_LIMIT_WAIT_TIME == 60

\* IPBlockingError(video_id): phrases of the default message, and of the
\* default message for a video id that contains "429".
IPBlockingError(extra) ==
    Exc("IPBlockingError", NoAttr, {"blocking", "cloud provider"} \cup extra)

\* RateLimitError(video_id, retry_after); NoAttr stands for retry_after=None.
RateLimitError(hint) ==
    [cls |-> "RateLimitError", status_code |-> NoAttr,
     msg |-> IF hint = NoAttr \/ hint = 0
             THEN {"Rate limit exceeded"}
             ELSE {"Rate limit exceeded", "Retry after"},
     retry_after |-> hint]

RetryAfterHints == {NoAttr, 7}

RetryExceptions ==
    { IPBlockingError({}), IPBlockingError({"429"}),
      Exc("HTTPError", NoAttr, {"429", "Too Many Requests"}),
      Exc("HTTPError", NoAttr, {"403", "Forbidden"}),
      Exc("HTTPError", NoAttr, {"too many requests"}),
      Exc("ConnectionError", NoAttr, {"timed out"}) }
        \cup { RateLimitError(r) : r \in RetryAfterHints }

RetryOutcomes ==
    { [ok |-> TRUE, text |-> "ok"] }
        \cup { [ok |-> FALSE, exc |-> e] : e \in RetryExceptions }

\* Variant of calculate_wait_time whose backoff ignores the attempt index.
calculate_wait_time_flat(attempt, error, c) ==
    IF error.cls = "RateLimitError"
    THEN IF error.retry_after # -1 /\ error.retry_after # 0
         THEN error.retry_after
         ELSE 60
    ELSE IF \E x \in error.msg : x \in {"429", "Too Many Requests", "too many requests"}
    THEN 60
    ELSE IF error.cls = "IPBlockingError" THEN 0
    ELSE 5 * c.backoff_factor

\* _calculate_wait_time (retry_handler.py:90-117)
calculate_wait_time(attempt, error, c) ==
    IF error.cls = "RateLimitError"
    THEN IF error.retry_after # NoAttr /\ error.retry_after # 0
         THEN error.retry_after
         ELSE RATE_LIMIT_WAIT_TIME
    ELSE IF "429" \in Lower(error.msg) \/ "too many requests" \in Lower(error.msg)
    THEN RATE_LIMIT_WAIT_TIME
    ELSE IF error.cls = "IPBlockingError" THEN 0
    ELSE DEFAULT_WAIT_TIME * Pow(c.backoff_factor, attempt)

\* error_handler: absent, or a callback that answers whether to go on.
ErrorHandlers == {"none", "go_on", "give_up"}

\* max_retries up to one more than the fetch loop's bound, so that a run
\* waits after attempt 1 as well as after attempt 0.
RetryConfigs ==
    [max_retries : 0..(MaxRetriesBound + 1),
     backoff_factor : {BACKOFF_FACTOR},
     error_handler : ErrorHandlers]

NoRun ==
    [active |-> FALSE, done |-> FALSE, attempt |-> 0, trace |-> << >>,
     returned |-> None, raised |-> NoExc, started_at |-> 0]

InitRetry ==
    /\ cfg \in RetryConfigs
    /\ proxies = << >>
    /\ current_index = 0
    /\ now = 0
    /\ cache = EmptyDict
    /\ disk = NoDisk
    /\ call = NoRun
    /\ hist = NoHist(proxies)
    /\ count = NoCount

\* execute_with_retry(func) up to the loop: with max_retries = 0 the loop
\* body never runs and the method returns None.
RetryStart ==
    /\ ~call.active
    /\ count.calls < MaxCalls
    /\ call' = IF cfg.max_retries <= 0
               THEN [NoRun EXCEPT !.done = TRUE, !.started_at = now]
               ELSE [NoRun EXCEPT !.active = TRUE, !.started_at = now]
    /\ count' = [count EXCEPT !.calls = @ + 1]
    /\ UNCHANGED <<cfg, proxies, current_index, now, cache, disk, hist>>

\* One iteration of the loop (lines 56-84), func answering with o.
RetryAttempt(o) ==
    /\ call.active
    /\ LET attempt == call.attempt
           stop == \/ cfg.error_handler = "give_up"
                   \/ attempt >= cfg.max_retries - 1
           wait_time == calculate_wait_time(attempt, o.exc, cfg)
       IN  IF o.ok
           THEN /\ call' = [call EXCEPT !.active = FALSE, !.done = TRUE,
                                        !.returned = o.text]
                /\ now' = now
           ELSE IF stop
           THEN /\ call' = [call EXCEPT !.active = FALSE, !.done = TRUE,
                                        !.raised = o.exc.cls]
                /\ now' = now
           ELSE /\ call' = [call EXCEPT
                               !.attempt = attempt + 1,
                               !.trace = Append(@, [exc |-> o.exc,
                                                    attempt |-> attempt,
                                                    wait |-> wait_time])]
                /\ now' = now + wait_time
    /\ UNCHANGED <<cfg, proxies, current_index, cache, disk, hist, count>>

NextRetry ==
    \/ RetryStart
    \/ \E o \in RetryOutcomes : RetryAttempt(o)

SpecRetry == InitRetry /\ [][NextRetry]_vars

(***************************************************************************)
(* The video catalog: YouTubeClient._parse_duration and                    *)
(* get_videos_from_channels (youtube_client.py:84-178).  A duration is     *)
(* the ISO 8601 text of the Data API, a sequence of characters.  SpecList  *)
(* runs get_videos_from_channels over a catalog; `hist` holds the catalog  *)
(* asked and the list returned.                                            *)
(***************************************************************************)
MIN_VIDEO_DURATION_SECONDS == 300

Digits == {"0", "1", "2", "3", "4", "5", "6", "7", "8", "9"}

DigitValue(ch) == CHOOSE d \in 0..9 : DigitChar(d) = ch

\* int(text) for a non-empty sequence of digits.
RECURSIVE StrToInt(_)
StrToInt(ds) ==
    IF Len(ds) = 1 THEN DigitValue(ds[1])
    ELSE 10 * StrToInt(SubSeq(ds, 1, Len(ds) - 1)) + DigitValue(ds[Len(ds)])

\* contentDetails.duration of a video that lasts `secs` seconds, as the
\* Data API writes it: PT#M#S, PT#H#M#S, P#DT#H#M#S, components that are
\* zero left out, P0D for a length of zero.
Part(n, letter) == IF n = 0 THEN << >> ELSE IntToStr(n) \o <<letter>>

iso8601(secs) ==
    LET d == secs \div 86400
        h == (secs % 86400) \div 3600
        m == (secs % 3600) \div 60
        s == secs % 60
        time == Part(h, "H") \o Part(m, "M") \o Part(s, "S")
    IN  IF secs = 0 THEN <<"P", "0", "D">>
        ELSE <<"P">> \o Part(d, "D")
                 \o (IF time = << >> THEN << >> ELSE <<"T">> \o time)

\* Number of digits of s from position pos on.
RECURSIVE DigitRun(_, _)
DigitRun(s, pos) ==
    IF pos <= Len(s) /\ s[pos] \in Digits THEN 1 + DigitRun(s, pos + 1) ELSE 0

\* One optional group (\d+X)? of the pattern, tried at position pos: the
\* int of its digits (0 when the group does not match) and the position
\* after it.
Group(s, pos, letter) ==
    LET n == DigitRun(s, pos)
    IN  IF n >= 1 /\ pos + n <= Len(s) /\ s[pos + n] = letter
        THEN [value |-> StrToInt(SubSeq(s, pos, pos + n - 1)), next |-> pos + n + 1]
        ELSE [value |-> 0, next |-> pos]

\* f"{n:02}"
Pad2(n) == IF n < 10 THEN <<"0">> \o IntToStr(n) ELSE IntToStr(n)

\* _parse_duration: re.match(r'PT(\d+H)?(\d+M)?(\d+S)?', duration_iso),
\* then the formatted text and the total of seconds.
parse_duration(duration_iso) ==
    IF ~(Len(duration_iso) >= 2 /\ duration_iso[1] = "P" /\ duration_iso[2] = "T")
    THEN [formatted |-> <<"0", "0", ":", "0", "0">>, total_seconds |-> 0]
    ELSE LET gh == Group(duration_iso, 3, "H")
             gm == Group(duration_iso, gh.next, "M")
             gs == Group(duration_iso, gm.next, "S")
             hours == gh.value
             minutes == gm.value
             seconds == gs.value
         IN  [formatted |->
                 IF hours > 0
                 THEN IntToStr(hours) \o <<":">> \o Pad2(minutes) \o <<":">>
                          \o Pad2(seconds)
                 ELSE IntToStr(minutes) \o <<":">> \o Pad2(seconds),
              total_seconds |-> hours * 3600 + minutes * 60 + seconds]

\* The lengths of the catalog's videos, in seconds: a short, the limit and
\* one second more, an hour, and a recording of more than a day.
Lengths == {59, 300, 301, 3600, 90000}

\* A playlist item: whether publishedAt is later than published_after
\* (line 142), and what videos().list answers for it: the details with the
\* duration text, no item, or an error.
PlaylistItems ==
    [recent : BOOLEAN, details : {"found"}, secs : Lengths]
        \cup [recent : {TRUE}, details : {"none", "error"}, secs : {301}]

\* A channel: its recent uploads, at most MaxItems of them; NotFound is a
\* channel id for which channels().list has no item.
NotFound == [found |-> FALSE, items |-> << >>]

Uploads ==
    { [found |-> TRUE, items |-> its] :
        its \in UNION { [1..n -> PlaylistItems] : n \in 0..MaxItems } }

\* The catalogs asked: no channel, one channel, and a channel after one
\* that is not found.
Catalogs ==
    { << >> } \cup { <<ch>> : ch \in Uploads }
        \cup { <<NotFound, ch>> : ch \in Uploads }

\* Lines 138-174 for the items of one channel from position i on: the
\* videos appended; an error ends the scan of the channel (line 175).
RECURSIVE scan_items(_, _, _)
scan_items(c, items, i) ==
    IF i > Len(items) THEN << >>
    ELSE LET item == items[i]
             d == parse_duration(iso8601(item.secs))
         IN  IF ~item.recent THEN scan_items(c, items, i + 1)
             ELSE IF item.details = "error" THEN << >>
             ELSE IF item.details = "none" THEN scan_items(c, items, i + 1)
             ELSE IF d.total_seconds <= MIN_VIDEO_DURATION_SECONDS
             THEN scan_items(c, items, i + 1)
             ELSE <<[video_id |-> <<c, i>>, duration |-> d.formatted]>>
                      \o scan_items(c, items, i + 1)

\* get_videos_from_channels(channel_ids) over the catalog, from channel c on.
RECURSIVE get_videos_from_channels(_, _)
get_videos_from_channels(catalog, c) ==
    IF c > Len(catalog) THEN << >>
    ELSE (IF ~catalog[c].found THEN << >>
          ELSE scan_items(c, catalog[c].items, 1))
             \o get_videos_from_channels(catalog, c + 1)

NoListing == [asked |-> FALSE, catalog |-> << >>, videos |-> << >>]

InitList ==
    /\ cfg \in CacheConfigs
    /\ proxies = << >>
    /\ current_index = 0
    /\ now = 0
    /\ cache = EmptyDict
    /\ disk = NoDisk
    /\ call = NoCall
    /\ hist = NoListing
    /\ count = NoCount

GetVideos(catalog) ==
    /\ ~hist.asked
    /\ hist' = [asked |-> TRUE, catalog |-> catalog,
                videos |-> get_videos_from_channels(catalog, 1)]
    /\ UNCHANGED <<cfg, proxies, current_index, now, cache, disk, call, count>>

NextList == \E catalog \in Catalogs : GetVideos(catalog)

SpecList == InitList /\ [][NextList]_vars

(***************************************************************************)
(* The batch driver (main.py; the same loop is                             *)
(* VideoProcessor.process_videos, video_processor.py:140-180).  SpecBatch  *)
(* runs process_videos over a list of videos with a client that has a      *)
(* cache and no proxy pool, and runs main.  `hist` holds                   *)
(*   run        where process_videos is: "idle", "loop", "returned",       *)
(*              "raised"                                                   *)
(*   videos     its input list, idx the position of the video in work      *)
(*   digest     per video handled, the id, the transcript fetched and the  *)
(*              summary put into the mail body                             *)
(*   main       the inputs and the end of the run of main ("none": not     *)
(*              run), sent the notifications sent, ledger the lines of     *)
(*              processed_videos.txt, processed_ids the set a              *)
(*              VideoProcessor constructed over that file holds in memory  *)
(***************************************************************************)
RETRY_DELAY == 20
MAX_VIDEOS == 20

\* The summary of a video without transcript (main.py:65).
Placeholder == "<no transcript available>"

\* Summarizer.summarize(text) for a non-empty text: the model's summary,
\* or the error text when the request fails (summarizer.py:21-41).
summarize(text, ok) ==
    IF ok THEN "<summary>" ELSE "<summarization error>"

\* Lists of distinct videos.
VideoLists ==
    { vs \in UNION { [1..n -> Keys] : n \in 0..Cardinality(Keys) } :
        \A i, j \in 1..Len(vs) : i # j => vs[i] # vs[j] }

BatchConfigs ==
    [max_retries : {2},
     backoff_factor : {BACKOFF_FACTOR},
     failure_threshold : {MaxThreshold},
     disable_duration_minutes : {PROXY_DISABLE_DURATION},
     expiry_days : {CACHE_EXPIRY_DAYS},
     cache_enabled : {TRUE},
     has_manager : {FALSE}]

NoMain == [status |-> "none", valid |-> FALSE, catalog |-> << >>,
           topical |-> {}]

NoBatch ==
    [run |-> "idle", videos |-> << >>, idx |-> 0, digest |-> << >>,
     main |-> NoMain, sent |-> << >>, ledger |-> << >>,
     processed_ids |-> {}]

InitBatch ==
    /\ cfg \in BatchConfigs
    /\ proxies = << >>
    /\ current_index = 0
    /\ now = 0
    /\ disk \in [file : CacheFiles, fault : {"none"}]
    /\ cache = load_cache(disk.file)
    /\ call = NoCall
    /\ hist = NoBatch
    /\ count = NoCount

\* process_videos(videos, ...) up to the loop (main.py:47-50).
ProcessVideos(videos) ==
    /\ hist.run = "idle"
    /\ hist.main.status = "none"
    /\ count.ops < MaxBatchOps
    /\ hist' = [hist EXCEPT !.run = IF videos = << >> THEN "returned" ELSE "loop",
                            !.videos = videos, !.idx = 1]
    /\ count' = [count EXCEPT !.ops = @ + 1]
    /\ UNCHANGED <<cfg, proxies, current_index, now, cache, disk, call>>

\* Lines 54-58: the delay before every video but the first, and the entry
\* of get_transcript (youtube_client.py:192-200).
FetchTranscript ==
    /\ hist.run = "loop"
    /\ ~call.active
    /\ ~call.done
    /\ LET video_id == hist.videos[hist.idx]
           t == IF hist.idx > 1 THEN now + RETRY_DELAY ELSE now
           g == cache_get(cache, video_id, cfg.expiry_days, t)
           fresh == [NoCall EXCEPT !.video_id = video_id, !.pre = proxies,
                                   !.pre_cache = cache, !.started_at = t,
                                   !.ended_at = t]
       IN  /\ now' = t
           /\ cache' = g.cache
           /\ disk' = IF g.saved THEN save_cache(g.cache, disk) ELSE disk
           /\ call' = IF g.exc # NoExc
                      THEN [fresh EXCEPT !.done = TRUE, !.raised = TRUE]
                      ELSE IF Truthy(g.ret)
                      THEN [fresh EXCEPT !.done = TRUE, !.result = g.ret,
                                         !.cache_hit = TRUE]
                      ELSE IF cfg.max_retries <= 0
                      THEN [fresh EXCEPT !.done = TRUE, !.result = None]
                      ELSE [fresh EXCEPT !.active = TRUE, !.phase = "select"]
    /\ UNCHANGED <<cfg, proxies, current_index, hist, count>>

\* Lines 60-72 once get_transcript has ended: the summary and the entry in
\* the mail body; an exception of get_transcript leaves process_videos.
Summarize(ok) ==
    /\ hist.run = "loop"
    /\ call.done
    /\ IF call.raised
       THEN /\ hist' = [hist EXCEPT !.run = "raised"]
            /\ call' = call
       ELSE /\ hist' = [hist EXCEPT
                           !.digest = Append(@,
                               [video_id |-> call.video_id,
                                transcript |-> call.result,
                                summary |-> IF Truthy(call.result)
                                            THEN summarize(call.result, ok)
                                            ELSE Placeholder]),
                           !.idx = @ + 1,
                           !.run = IF hist.idx = Len(hist.videos)
                                   THEN "returned" ELSE "loop"]
            /\ call' = NoCall
    /\ UNCHANGED <<cfg, proxies, current_index, now, cache, disk, count>>

\* save_processed_videos(video_ids) (main.py:38-41): one line per id is
\* appended to the ledger.
save_processed_videos(ledger, video_ids) == ledger \o video_ids

\* VideoProcessor.filter_new_videos(videos) (video_processor.py:82-98) and
\* the same comprehension of main (main.py:125).
filter_new_videos(videos, processed_ids) ==
    LET IsNew(v) == v \notin processed_ids
    IN  SelectSeq(videos, IsNew)

\* send_notification(email_sender, videos, body) (main.py:76-87): one mail,
\* the "no updates" one when the list is empty.
send_notification(sent, digest) == Append(sent, digest)

\* The ids a caller marks as processed in one call.
IdLists == { <<k>> : k \in Keys }

\* save_processed_videos called on its own.
SaveProcessedVideos(video_ids) ==
    /\ hist.run # "loop"
    /\ count.ops < MaxBatchOps
    /\ hist' = [hist EXCEPT !.ledger = save_processed_videos(@, video_ids)]
    /\ count' = [count EXCEPT !.ops = @ + 1]
    /\ UNCHANGED <<cfg, proxies, current_index, now, cache, disk, call>>

\* VideoProcessor.mark_as_processed(video_ids) (video_processor.py:182-192):
\* the lines are appended and the set in memory is updated.
MarkAsProcessed(video_ids) ==
    /\ hist.run # "loop"
    /\ count.ops < MaxBatchOps
    /\ hist' = [hist EXCEPT
                    !.ledger = @ \o video_ids,
                    !.processed_ids = @ \cup { video_ids[i] : i \in 1..Len(video_ids) }]
    /\ count' = [count EXCEPT !.ops = @ + 1]
    /\ UNCHANGED <<cfg, proxies, current_index, now, cache, disk, call>>

\* send_notification called on its own, with no videos or with the digest
\* of process_videos.
SendNotification(digest) ==
    /\ hist.run # "loop"
    /\ count.ops < MaxBatchOps
    /\ hist' = [hist EXCEPT !.sent = send_notification(@, digest)]
    /\ count' = [count EXCEPT !.ops = @ + 1]
    /\ UNCHANGED <<cfg, proxies, current_index, now, cache, disk, call>>

\* The parameters of YouTubeClient.__init__ (youtube_client.py:52-56) and
\* the keywords main passes to it (main.py:102-110).
YouTubeClientParams ==
    {"api_key", "cookies_file", "cache_dir", "cache_expiry_days",
     "max_retries", "backoff_factor", "proxy_manager", "user_agent"}

MainClientKeywords ==
    {"cache_dir", "cache_expiry_days", "max_retries", "backoff_factor",
     "proxies"}

\* A call with a keyword the function does not have raises TypeError.
construct(keywords, params) ==
    IF keywords \subseteq params THEN NoExc ELSE "TypeError"

\* main(): `valid` is Config.validate(), `catalog` the videos that
\* get_videos_from_channels returns, `topical` those is_gen_ai_video
\* accepts, `fetched` what get_transcript returns per video.  Result: how
\* the run ended, the notifications sent and the ledger.
main(valid, catalog, topical, fetched, sent, ledger) ==
    IF ~valid
    THEN [status |-> "exit", sent |-> sent, ledger |-> ledger]
    ELSE IF construct(MainClientKeywords, YouTubeClientParams) # NoExc
    THEN [status |-> construct(MainClientKeywords, YouTubeClientParams),
          sent |-> sent, ledger |-> ledger]
    ELSE LET processed_ids == { ledger[i] : i \in 1..Len(ledger) }
             videos == IF Len(catalog) > MAX_VIDEOS
                       THEN SubSeq(catalog, 1, MAX_VIDEOS) ELSE catalog
             IsTopical(v) == v \in topical
             gen_ai_videos ==
                 SelectSeq(filter_new_videos(videos, processed_ids), IsTopical)
             digest == [i \in 1..Len(gen_ai_videos) |->
                          [video_id |-> gen_ai_videos[i],
                           transcript |-> fetched[gen_ai_videos[i]],
                           summary |-> IF Truthy(fetched[gen_ai_videos[i]])
                                       THEN summarize(fetched[gen_ai_videos[i]], TRUE)
                                       ELSE Placeholder]]
         IN  IF gen_ai_videos = << >>
             THEN [status |-> "done", sent |-> send_notification(sent, << >>),
                   ledger |-> ledger]
             ELSE [status |-> "done", sent |-> send_notification(sent, digest),
                   ledger |-> save_processed_videos(ledger, gen_ai_videos)]

\* One run of main.
MainRun(valid, catalog, topical, fetched) ==
    /\ hist.run = "idle"
    /\ hist.main.status = "none"
    /\ count.ops < MaxBatchOps
    /\ LET r == main(valid, catalog, topical, fetched, hist.sent, hist.ledger)
       IN  hist' = [hist EXCEPT
                       !.main = [status |-> r.status, valid |-> valid,
                                 catalog |-> catalog, topical |-> topical],
                       !.sent = r.sent,
                       !.ledger = r.ledger]
    /\ count' = [count EXCEPT !.ops = @ + 1]
    /\ UNCHANGED <<cfg, proxies, current_index, now, cache, disk, call>>

NextBatch ==
    \/ \E videos \in VideoLists : ProcessVideos(videos)
    \/ FetchTranscript
    \/ AttemptSelect
    \/ \E o \in Outcomes, l \in Latencies : AttemptAnswer(o, l)
    \/ AttemptSleep
    \/ \E ok \in BOOLEAN : Summarize(ok)
    \/ \E valid \in BOOLEAN, catalog \in VideoLists, topical \in SUBSET Keys,
          fetched \in [Keys -> {None, "ok"}] :
           MainRun(valid, catalog, topical, fetched)
    \/ \E ids \in IdLists : SaveProcessedVideos(ids)
    \/ \E ids \in IdLists : MarkAsProcessed(ids)
    \/ \E d \in {<< >>, hist.digest} : SendNotification(d)

SpecBatch == InitBatch /\ [][NextBatch]_vars

(***************************************************************************)
(* Properties of get_transcript (checked under Spec).  They speak of the   *)
(* latest call once it has returned (call.done).                           *)
(***************************************************************************)
Kinds(tr) == { tr[i].kind : i \in 1..Len(tr) }

Sleeps(tr) == { i \in 1..Len(tr) : tr[i].slept # NoSleep }

\* The requested key had an entry when the call started, with a timestamp
\* that reads and younger than the expiry window.
CachedUnexpired ==
    /\ cfg.cache_enabled
    /\ call.video_id \in Keys
    /\ call.pre_cache[call.video_id] # NoEntry
    /\ timestamp_error(call.pre_cache[call.video_id]) = NoExc
    /\ call.started_at - fromisoformat(call.pre_cache[call.video_id].timestamp)
          < cfg.expiry_days * SECONDS_PER_DAY

\* C1: whatever the outcomes of the attempts, with or without a cache and
\* a proxy pool, get_transcript ends by returning a transcript text or
\* None and raises nothing.
C1_ReturnsValueNeverRaises ==
    call.done => (~call.raised /\ (call.result = None \/ call.result \in Texts))

\* C2: for a key with a present, unexpired cache entry, whatever its text,
\* get_transcript returns the cached text without any network attempt,
\* get_next_proxy call, proxy report or sleep.
C2_CacheHitNoNetwork ==
    (call.done /\ CachedUnexpired)
        => /\ call.result = call.pre_cache[call.video_id].transcript
           /\ call.trace = << >>
           /\ proxies = call.pre

\* The cache lookup raised, before the retry loop was entered.
LookupRaised == call.raised /\ call.trace = << >>

C4_AbsenceShortCircuit ==
    (call.done /\ Len(call.trace) >= 1 /\ call.trace[1].kind = "absence")
        => /\ Len(call.trace) = 1
           /\ call.result = None
           /\ call.trace[1].slept = NoSleep
           /\ call.ended_at = call.started_at + call.trace[1].took
           /\ call.trace[1].report = "none"
           /\ \A i \in 1..Len(proxies) :
                 /\ proxies[i].failure_count = call.pre[i].failure_count
                 /\ proxies[i].disabled_until = call.pre[i].disabled_until

C4_Witness ==
    /\ call.done
    /\ cfg.max_retries >= 2
    /\ Len(call.trace) = 1
    /\ call.trace[1].kind = "absence"
    /\ call.trace[1].sel # 0

\* C5: with no cached text for the key, max_retries >= 2 and a pool of two
\* available proxies A and B with fresh counters, when the attempt through
\* A fails with IP-Blocking and the next one through B succeeds with t,
\* get_transcript returns t, A's failure_count is 1, B's success_count is 1
\* and the cache maps the key to t.
C5_BlockedThenRotatedSuccess ==
    ( /\ call.done
      /\ cfg.cache_enabled
      /\ ~call.cache_hit
      /\ cfg.max_retries >= 2
      /\ Len(call.pre) = 2
      /\ url(call.pre[1]) # url(call.pre[2])
      /\ \A i \in 1..2 : /\ call.pre[i].failure_count = 0
                         /\ call.pre[i].success_count = 0
                         /\ call.pre[i].disabled_until = NoTime
      /\ Len(call.trace) = 2
      /\ call.trace[1].kind = "ip_blocking"
      /\ call.trace[2].kind = "success" )
        => LET A == call.trace[1].sel
               B == call.trace[2].sel
           IN  /\ A # B
               /\ call.result \in Texts
               /\ proxies[A].failure_count = 1
               /\ proxies[B].success_count = 1
               /\ cache[call.video_id] # NoEntry
               /\ cache[call.video_id].transcript = call.result

\* C6 as stated: with max_retries = 2 and both attempts rate-limited,
\* get_transcript returns None after max_retries (2) sleeps of at least
\* 60 seconds each.
C6_SleepsAfterEveryRateLimit ==
    ( /\ call.done
      /\ cfg.max_retries = 2
      /\ Len(call.trace) = 2
      /\ Kinds(call.trace) = {"rate_limit"} )
        => /\ call.result = None
           /\ Cardinality(Sleeps(call.trace)) = cfg.max_retries
           /\ \A i \in Sleeps(call.trace) : call.trace[i].slept >= RATE_LIMIT_WAIT

\* C6 amended: with max_retries = 2 and both attempts rate-limited,
\* get_transcript returns None after max_retries - 1 (1) sleep of 60
\* seconds: the wait is taken after the first rate-limited attempt and
\* not after the last one.
C6_SleepsWhileAttemptsRemain ==
    ( /\ call.done
      /\ cfg.max_retries = 2
      /\ Len(call.trace) = 2
      /\ Kinds(call.trace) = {"rate_limit"} )
        => /\ call.result = None
           /\ Sleeps(call.trace) = {1}
           /\ call.trace[1].slept = RATE_LIMIT_WAIT
           /\ call.ended_at = call.started_at + call.trace[1].took
                                + RATE_LIMIT_WAIT + call.trace[2].took

C6_Witness ==
    /\ call.done
    /\ cfg.max_retries = 2
    /\ Len(call.trace) = 2
    /\ Kinds(call.trace) = {"rate_limit"}
    /\ call.trace[1].report = "failed"
    /\ call.trace[2].report = "failed"

\* C7: after an attempt through proxy P fails with IP-Blocking, the next
\* attempt of the same call, if there is one, uses a proxy other than P
\* and starts without a sleep; otherwise the call ends with None.
C7_RotatesAwayFromBlockedProxy ==
    /\ \A i \in 1..Len(call.trace) :
          call.trace[i].kind = "ip_blocking"
              => /\ call.trace[i].slept = NoSleep
                 /\ i < Len(call.trace)
                        => call.trace[i + 1].sel # call.trace[i].sel
    /\ ( /\ call.done
         /\ call.trace # << >>
         /\ call.trace[Len(call.trace)].kind = "ip_blocking" )
            => call.result = None

\* C19: an attempt on a video that has a track in any language yields the
\* video's transcript and not Absence: the ja track if there is one, else
\* the en track, else a track of the video; the lookups happen within the
\* one attempt, whose index they do not advance.
C19_AnyTrackYieldsTranscript ==
    \A i \in 1..Len(call.trace) :
        LET e == call.trace[i]
            langs == { tr.language_code : tr \in e.listed }
        IN  e.listed # {}
                => /\ e.kind = "success"
                   /\ e.lang \in langs
                   /\ "ja" \in langs => e.lang = "ja"
                   /\ ("ja" \notin langs /\ "en" \in langs) => e.lang = "en"
                   /\ i = Len(call.trace)
                   /\ call.done
                   /\ call.result = "ok"
                   /\ call.attempt = i - 1

(***************************************************************************)
(* Properties of the pool (checked under SpecPool).                        *)
(***************************************************************************)
\* Availability of entry i of pool ps at time t, read off the entry.
EntryAvailable(ps, i, t) ==
    ps[i].disabled_until = NoTime \/ t > ps[i].disabled_until

\* Availability of entry i at the last operation, read off the history of
\* reported failures: never disabled, or disabled longer ago than the
\* disable window.
WindowOpen(i) ==
    /\ hist.disabled_at[i] # NoTime
    /\ hist.at - hist.disabled_at[i] < disable_duration(cfg)

WindowOver(i) ==
    \/ hist.disabled_at[i] = NoTime
    \/ hist.at - hist.disabled_at[i] > disable_duration(cfg)

\* C8: in a pool of N entries that are all available, N consecutive
\* get_next_proxy calls with no failure reported in between return every
\* pool entry exactly once, whatever the cursor was at the first call.
C8_RoundRobin ==
    (hist.op = "get" /\ Len(proxies) > 0 /\ Len(hist.run) = Len(proxies))
        => { hist.run[k] : k \in 1..Len(hist.run) } = 1..Len(proxies)

C8_Witness ==
    /\ hist.op = "get"
    /\ Len(proxies) >= 2
    /\ Len(hist.run) = Len(proxies)
    /\ hist.run[1] # 1

\* C9 as stated: an entry on which failure_threshold failures in a row were
\* recorded is not returned by get_next_proxy before disable_duration has
\* elapsed since the disabling failure, for every pool size and every state
\* of the other entries.
C9_NeverReturnedWhileDisabled ==
    \A i \in 1..Len(proxies) :
        (hist.op = "get" /\ WindowOpen(i)) => hist.sel # i

\* C9 amended: an entry on which failure_threshold failures in a row were
\* recorded is not returned by get_next_proxy before disable_duration has
\* elapsed since the disabling failure, as long as some other entry of the
\* pool is available at the call and reset_all has not been called since
\* that failure.
C9_NotReturnedWhileOtherAvailable ==
    \A i \in 1..Len(proxies) :
        ( /\ hist.op = "get"
          /\ WindowOpen(i)
          /\ \E j \in 1..Len(proxies) : j # i /\ WindowOver(j) )
            => hist.sel # i

C9_Witness ==
    /\ hist.op = "get"
    /\ \E i \in 1..Len(proxies) :
          /\ WindowOpen(i)
          /\ hist.pre_index + 1 = i
          /\ hist.streak[i] >= cfg.failure_threshold
          /\ \E j \in 1..Len(proxies) : j # i /\ WindowOver(j) /\ hist.sel = j

\* C10: when at least one entry is available, get_next_proxy returns an
\* available entry: the first available one at or after the cursor in
\* cyclic order, and it leaves the cursor just past the returned entry.
C10_FirstAvailableFromCursor ==
    LET n == Len(hist.pre)
        At(k) == ((hist.pre_index + k) % n) + 1
    IN  ( /\ hist.op = "get"
          /\ \E i \in 1..n : EntryAvailable(hist.pre, i, hist.at) )
            => /\ hist.sel \in 1..n
               /\ EntryAvailable(hist.pre, hist.sel, hist.at)
               /\ \E k \in 0..(n - 1) :
                     /\ At(k) = hist.sel
                     /\ \A m \in 0..(k - 1) :
                           ~EntryAvailable(hist.pre, At(m), hist.at)
               /\ current_index = hist.sel % n

C10_Witness ==
    /\ hist.op = "get"
    /\ Len(hist.pre) >= 2
    /\ ~EntryAvailable(hist.pre, hist.pre_index + 1, hist.at)
    /\ hist.sel # hist.pre_index + 1
    /\ EntryAvailable(hist.pre, hist.sel, hist.at)

\* C11: get_next_proxy returns None only when the pool is empty; from a
\* non-empty pool whose entries are all disabled at the call it returns the
\* dict of an entry whose disabled_until is the earliest.
C11_NoneOnlyWhenEmptyElseEarliest ==
    LET n == Len(hist.pre)
    IN  hist.op = "get"
            => /\ (hist.ret = NoneDict) <=> (n = 0)
               /\ n > 0 => /\ hist.sel \in 1..n
                           /\ hist.ret = as_dict(hist.pre[hist.sel])
               /\ ( /\ n > 0
                    /\ \A i \in 1..n : ~EntryAvailable(hist.pre, i, hist.at) )
                      => \A j \in 1..n :
                            hist.pre[hist.sel].disabled_until
                                <= hist.pre[j].disabled_until

C11_Witness ==
    /\ hist.op = "get"
    /\ Len(hist.pre) >= 2
    /\ \A i \in 1..Len(hist.pre) : ~EntryAvailable(hist.pre, i, hist.at)
    /\ hist.ret # NoneDict
    /\ \E j \in 1..Len(hist.pre) :
          hist.pre[hist.sel].disabled_until < hist.pre[j].disabled_until
    /\ hist.sel # 1

\* C12: mark_proxy_failed adds one to failure_count of the entry it is
\* recorded on; when the count reaches failure_threshold it sets
\* disabled_until to now + disable_duration and keeps the count, so that a
\* further failure with no success in between (also one reported after the
\* disable window has elapsed) disables the entry again.  reset_all starts
\* the count again, as a success does.
C12_FailureCountsAndRedisables ==
    (hist.op = "failed" /\ hist.sel # 0)
        => LET j == hist.sel
               before == hist.pre[j]
               after == proxies[j]
               window == 60 * cfg.disable_duration_minutes
           IN  /\ after.failure_count = before.failure_count + 1
               /\ after.failure_count >= cfg.failure_threshold
                      => after.disabled_until = hist.at + window
               /\ after.failure_count < cfg.failure_threshold
                      => after.disabled_until = before.disabled_until
               /\ hist.streak[j] > cfg.failure_threshold
                      => after.disabled_until = hist.at + window

C12_Witness ==
    /\ hist.op = "failed"
    /\ hist.sel # 0
    /\ hist.streak[hist.sel] = cfg.failure_threshold + 1
    /\ hist.pre[hist.sel].disabled_until # NoTime
    /\ hist.at > hist.pre[hist.sel].disabled_until
    /\ proxies[hist.sel].disabled_until
          = hist.at + 60 * cfg.disable_duration_minutes

\* C13 as stated: mark_proxy_success sets failure_count of the entry it is
\* recorded on to 0, adds exactly one to its success_count and sets its
\* last_used to the time of the report.
C13_SuccessUpdatesLastUsed ==
    (hist.op = "success" /\ hist.sel # 0)
        => LET j == hist.sel
           IN  /\ proxies[j].failure_count = 0
               /\ proxies[j].success_count = hist.pre[j].success_count + 1
               /\ proxies[j].last_used = hist.at

\* C13 amended: mark_proxy_success sets failure_count of the entry it is
\* recorded on to 0 and adds exactly one to its success_count; last_used
\* keeps the value get_next_proxy gave it when the entry was handed out.
C13_SuccessKeepsLastUsed ==
    (hist.op = "success" /\ hist.sel # 0)
        => LET j == hist.sel
           IN  /\ proxies[j].failure_count = 0
               /\ proxies[j].success_count = hist.pre[j].success_count + 1
               /\ proxies[j].last_used = hist.pre[j].last_used

C13_Witness ==
    /\ hist.op = "success"
    /\ hist.sel # 0
    /\ hist.pre[hist.sel].failure_count > 0
    /\ hist.pre[hist.sel].last_used # NoTime
    /\ hist.pre[hist.sel].last_used < hist.at
    /\ proxies[hist.sel].failure_count = 0

(***************************************************************************)
(* Properties of the cache (checked under SpecCache).                      *)
(***************************************************************************)
\* Age at the last operation of the entry that key k had before it.
AgeBefore(k) == hist.at - fromisoformat(hist.pre[k].timestamp)

ExpiryWindow == cfg.expiry_days * SECONDS_PER_DAY

\* The keys that held a well-formed entry before the last operation.
WellFormedBefore ==
    { k \in Keys : /\ hist.pre[k] # NoEntry
                   /\ hist.pre[k] \notin MalformedEntries }

\* C14: set(k, t) followed immediately by get(k) returns exactly t, also
\* when k held another text before the set.
C14_SetThenGet ==
    ( /\ hist.op = "get"
      /\ hist.prev.op = "set"
      /\ hist.prev.key = hist.key
      /\ hist.prev.at = hist.at )
        => /\ hist.exc = NoExc
           /\ hist.ret = hist.prev.text
           /\ ~hist.evicted

C14_Witness ==
    /\ hist.op = "get"
    /\ hist.prev.op = "set"
    /\ hist.prev.key = hist.key
    /\ hist.loaded.kind = "json"
    /\ hist.loaded.value[hist.key] # NoEntry
    /\ hist.loaded.value[hist.key] \notin MalformedEntries
    /\ hist.loaded.value[hist.key].transcript # hist.prev.text
    /\ hist.ret = hist.prev.text

\* C15: a get(k) that runs when the clock is past the expiry window of k's
\* entry returns None and removes the entry, and a stats() that follows
\* counts the other keys only.
C15_ExpiredEvictedAndUncounted ==
    /\ ( /\ hist.op = "get"
         /\ hist.key \in WellFormedBefore
         /\ AgeBefore(hist.key) > ExpiryWindow )
           => /\ hist.exc = NoExc
              /\ hist.ret = None
              /\ cache[hist.key] = NoEntry
    /\ ( /\ hist.op = "stats"
         /\ hist.prev.op = "get"
         /\ hist.prev.evicted
         /\ hist.exc = NoExc )
           => LET others == { k \in Keys \ {hist.prev.key} : cache[k] # NoEntry }
                  old == { k \in others :
                             hist.at - fromisoformat(cache[k].timestamp)
                                 > ExpiryWindow }
              IN  /\ cache[hist.prev.key] = NoEntry
                  /\ hist.stats.total_entries = Cardinality(others)
                  /\ hist.stats.expired_entries = Cardinality(old)
                  /\ hist.stats.valid_entries = Cardinality(others \ old)

C15_Witness ==
    /\ hist.op = "stats"
    /\ hist.prev.op = "get"
    /\ hist.prev.evicted
    /\ hist.exc = NoExc
    /\ hist.stats.total_entries = 0
    /\ hist.loaded.kind = "missing"

\* Whether the last operation treated as valid exactly the entries of age
\* below the window (strict) or of age up to the window (not strict).
TreatsAsValid(strict) ==
    LET Valid(k) == IF strict THEN AgeBefore(k) < ExpiryWindow
                    ELSE AgeBefore(k) <= ExpiryWindow
        held == { k \in Keys : hist.pre[k] # NoEntry }
    IN  ( /\ hist.op \in {"get", "cleanup", "stats"}
          /\ held \subseteq WellFormedBefore )
            => /\ hist.exc = NoExc
               /\ (hist.op = "get" /\ hist.key \in held)
                     => IF Valid(hist.key)
                        THEN /\ hist.ret = hist.pre[hist.key].transcript
                             /\ cache[hist.key] = hist.pre[hist.key]
                        ELSE /\ hist.ret = None
                             /\ cache[hist.key] = NoEntry
               /\ hist.op = "cleanup"
                     => \A k \in held :
                           cache[k] = IF Valid(k) THEN hist.pre[k] ELSE NoEntry
               /\ hist.op = "stats"
                     => /\ hist.stats.valid_entries
                              = Cardinality({ k \in held : Valid(k) })
                        /\ hist.stats.expired_entries
                              = Cardinality({ k \in held : ~Valid(k) })

\* C16 as stated: get, cleanup and stats treat an entry as valid exactly
\* when now - cachedAt < expiry window; an entry whose age equals the
\* window is expired.
C16_ValidIffYoungerThanWindow == TreatsAsValid(TRUE)

\* C16 amended: get, cleanup and stats treat an entry as valid exactly
\* when now - cachedAt <= expiry window; an entry whose age equals the
\* window is still valid, any older entry is expired.
C16_ValidIffNotOlderThanWindow == TreatsAsValid(FALSE)

C16_Witness ==
    /\ hist.op \in {"cleanup", "stats"}
    /\ \E k \in WellFormedBefore : AgeBefore(k) = ExpiryWindow
    /\ \E k \in WellFormedBefore : AgeBefore(k) > ExpiryWindow
    /\ hist.exc = NoExc

\* C17 as stated: when set returns, and when a get that evicted an expired
\* entry returns, the file holds the in-memory dict, whatever the write
\* met.
C17_FileEqualsMemoryAlways ==
    (hist.op = "set" \/ (hist.op = "get" /\ hist.evicted))
        => /\ disk.file = [kind |-> "json", value |-> cache]
           /\ load_cache(disk.file) = cache

\* A file that is unreadable, is no JSON, or is a mapping with an entry
\* that is not {transcript, timestamp}.
Corrupt(file) ==
    \/ file.kind \in {"unreadable", "invalid_json"}
    \/ /\ file.kind = "json"
       /\ \E k \in Keys : file.value[k] \in MalformedEntries

\* C18: over a corrupt file the cache behaves as empty: a get, and a
\* get_transcript, for a key that was not set since construction is a
\* cache miss and raises nothing.
C18_CorruptFileIsEmptyCache ==
    Corrupt(hist.loaded)
        => /\ ( /\ hist.op = "get"
                /\ hist.pre[hist.key] = load_cache(hist.loaded)[hist.key] )
                  => (hist.exc = NoExc /\ hist.ret = None)
           /\ call.done => (~call.raised /\ ~call.cache_hit)

(***************************************************************************)
(* Properties of the failure classification (checked under SpecRetry).     *)
(***************************************************************************)
\* A failure that shows both the IP-Blocking and the Rate-Limit indicators.
BlockingAndRateLimit(e) ==
    /\ e.cls = "IPBlockingError" \/ is_ip_blocking(e)
    /\ e.cls = "RateLimitError" \/ http_status(e) = 429

\* C20: a failure that matches both the IP-Blocking and the Rate-Limit
\* indicators is handled as IP-Blocking: get_transcript takes its
\* IP-Blocking branch (no sleep), and _calculate_wait_time answers 0.
C20_BlockingBeforeRateLimit ==
    \A i \in 1..Len(call.trace) :
        LET e == call.trace[i].exc
        IN  BlockingAndRateLimit(e)
                => /\ Classify(e) = "ip_blocking"
                   /\ sleep_after(Classify(e), call.trace[i].attempt, cfg) = NoSleep
                   /\ call.trace[i].wait = 0

(***************************************************************************)
(* Further properties of the pool (checked under SpecPool).                *)
(***************************************************************************)
\* C21: a report (mark_proxy_success / mark_proxy_failed) made with the
\* value that the preceding get_next_proxy returned is recorded on the
\* entry that get_next_proxy selected, and every other entry of the pool
\* stays as it was.
C21_ReportedByIdentity ==
    [][ ( /\ hist.op = "get"
          /\ hist.sel # 0
          /\ hist'.op \in {"failed", "success"}
          /\ hist'.arg = hist.sel )
            => /\ hist'.sel = hist.sel
               /\ proxies'[hist.sel] # proxies[hist.sel]
               /\ \A k \in 1..Len(proxies) :
                      k # hist.sel => proxies'[k] = proxies[k] ]_vars

\* The disable windows the pool opened, seen at the step that sets
\* disabled_until to a time (reset_all unsets it): the new value lies
\* strictly after the clock reading.
SetStrictlyLater ==
    \A i \in 1..Len(proxies) :
        ( /\ proxies'[i].disabled_until # proxies[i].disabled_until
          /\ proxies'[i].disabled_until # NoTime )
            => proxies'[i].disabled_until > now

AvailableIffUnsetOrElapsed ==
    \A i \in 1..Len(proxies) :
        is_available(proxies[i], now)
            <=> \/ proxies[i].disabled_until = NoTime
                \/ now > proxies[i].disabled_until

\* C24 (as stated): for every configured failure threshold and disable
\* duration, disabled_until is strictly later than the time at which it is
\* set, and a proxy is available exactly when its disabled_until is unset
\* or has elapsed.
C24_DisabledUntilInFutureAlways ==
    [][SetStrictlyLater]_vars /\ []AvailableIffUnsetOrElapsed

\* C24 (amended): the same for every configured disable duration of at
\* least one minute.
C24_DisabledUntilInFutureWhenPositive ==
    /\ [][cfg.disable_duration_minutes > 0 => SetStrictlyLater]_vars
    /\ []AvailableIffUnsetOrElapsed

C24_Witness ==
    /\ cfg.disable_duration_minutes > 0
    /\ hist.op = "tick"
    /\ \E i \in 1..Len(proxies) :
           /\ proxies[i].disabled_until # NoTime
           /\ now > proxies[i].disabled_until
           /\ is_available(proxies[i], now)
    /\ \E i \in 1..Len(proxies) :
           /\ proxies[i].disabled_until # NoTime
           /\ now <= proxies[i].disabled_until
           /\ ~is_available(proxies[i], now)

\* C29: mark_proxy_success leaves disabled_until of every entry as it was;
\* a proxy that was disabled when the success was recorded on it has
\* failure_count 0 afterwards and is still unavailable.
C29_SuccessKeepsDisabledUntil ==
    hist.op = "success"
        => /\ \A i \in 1..Len(proxies) :
                  proxies[i].disabled_until = hist.pre[i].disabled_until
           /\ (hist.sel # 0 /\ ~is_available(hist.pre[hist.sel], hist.at))
                  => /\ proxies[hist.sel].failure_count = 0
                     /\ ~is_available(proxies[hist.sel], now)

\* The success is reported for the proxy that the all-disabled fallback
\* hands out; afterwards the proxy is disabled with a failure_count below
\* the threshold.
C29_Witness ==
    /\ hist.op = "success"
    /\ hist.sel # 0
    /\ hist.arg = hist.sel
    /\ \A i \in 1..Len(hist.pre) : ~is_available(hist.pre[i], hist.at)
    /\ hist.ret = as_dict(proxies[hist.sel])
    /\ hist.sel = LeastRecentlyFailed(hist.pre)
    /\ proxies[hist.sel].disabled_until # NoTime
    /\ ~is_available(proxies[hist.sel], now)
    /\ proxies[hist.sel].failure_count = 0
    /\ proxies[hist.sel].failure_count < cfg.failure_threshold

(***************************************************************************)
(* Properties of the waits (checked under SpecRetry).                      *)
(***************************************************************************)
\* The classes of _calculate_wait_time: its rate-limit tests (lines
\* 102, 109) and its IP-blocking test (line 113).
HandlerRateLimit(e) ==
    \/ e.cls = "RateLimitError"
    \/ "429" \in Lower(e.msg)
    \/ "too many requests" \in Lower(e.msg)

HandlerIPBlocking(e) == e.cls = "IPBlockingError"

Backoff(i) == BASE_WAIT * Pow(cfg.backoff_factor, i)

\* The exponential part of C25: after the failure of attempt i, with
\* attempts remaining, get_transcript sleeps 5 * backoff_factor^i when the
\* failure is Transient, and _calculate_wait_time(i, e) is the same value
\* when e is neither rate-limit nor IP-blocking.
ExponentialBackoff ==
    \A n \in 1..Len(call.trace) :
        LET e == call.trace[n].exc
            i == call.trace[n].attempt
        IN  /\ Classify(e) = "transient"
                => sleep_after(Classify(e), i, cfg) = Backoff(i)
            /\ (~HandlerRateLimit(e) /\ ~HandlerIPBlocking(e))
                => call.trace[n].wait = Backoff(i)

\* C25 (as stated): transient failures back off exponentially, and the
\* rate-limit wait is 60 s whatever the attempt index is.
C25_BackoffAndFixedRateLimitWait ==
    /\ ExponentialBackoff
    /\ \A n \in 1..Len(call.trace) :
           LET e == call.trace[n].exc
               i == call.trace[n].attempt
           IN  /\ Classify(e) = "rate_limit"
                   => sleep_after(Classify(e), i, cfg) = RATE_LIMIT_WAIT
               /\ (HandlerRateLimit(e) /\ ~HandlerIPBlocking(e))
                   => call.trace[n].wait = RATE_LIMIT_WAIT_TIME

\* C25 (amended): transient failures back off exponentially; the
\* rate-limit wait does not depend on the attempt index: 60 s in
\* get_transcript, and in _calculate_wait_time the retry_after of a
\* RateLimitError that carries one, else 60 s.
C25_BackoffAndIndexFreeRateLimitWait ==
    /\ ExponentialBackoff
    /\ \A n \in 1..Len(call.trace) :
           LET e == call.trace[n].exc
               i == call.trace[n].attempt
               hinted == /\ e.cls = "RateLimitError"
                         /\ e.retry_after # NoAttr
                         /\ e.retry_after # 0
           IN  /\ Classify(e) = "rate_limit"
                   => sleep_after(Classify(e), i, cfg) = RATE_LIMIT_WAIT
               /\ HandlerRateLimit(e)
                   => call.trace[n].wait =
                          IF hinted THEN e.retry_after ELSE RATE_LIMIT_WAIT_TIME

\* A run that waited 5 s after attempt 0 and 5 * backoff_factor after
\* attempt 1 for transient failures.
C25_Witness ==
    /\ Len(call.trace) = 2
    /\ \A n \in 1..2 :
           /\ Classify(call.trace[n].exc) = "transient"
           /\ ~HandlerRateLimit(call.trace[n].exc)
           /\ ~HandlerIPBlocking(call.trace[n].exc)
    /\ call.trace[1].wait = BASE_WAIT
    /\ call.trace[2].wait = BASE_WAIT * cfg.backoff_factor
    /\ cfg.backoff_factor > 1
    /\ now = call.started_at + BASE_WAIT + BASE_WAIT * cfg.backoff_factor

(***************************************************************************)
(* Further properties of get_transcript (checked under Spec).              *)
(***************************************************************************)
\* The attempt and sleep budget of one call: at most max_retries network
\* attempts (an IP-Blocking attempt counts like any other), at most
\* max_retries - 1 sleeps, none after the final attempt.
AttemptBudget ==
    /\ Len(call.trace) <= cfg.max_retries
    /\ call.attempt <= Len(call.trace)
    /\ Cardinality(Sleeps(call.trace))
           <= (IF cfg.max_retries = 0 THEN 0 ELSE cfg.max_retries - 1)
    /\ (call.done /\ call.trace # << >>)
           => call.trace[Len(call.trace)].slept = NoSleep

\* C26 (as stated): the budget above, and with max_retries = 0 the call
\* returns None without any attempt.
C26_BudgetAndNoneWithoutRetries ==
    /\ AttemptBudget
    /\ (cfg.max_retries = 0 /\ call.done)
           => ~call.raised /\ call.result = None /\ call.trace = << >>

\* The requested key had an entry when the call started whose timestamp
\* datetime.fromisoformat(entry['timestamp']) does not read.
CachedMalformed ==
    /\ cfg.cache_enabled
    /\ call.video_id \in Keys
    /\ call.pre_cache[call.video_id] # NoEntry
    /\ timestamp_error(call.pre_cache[call.video_id]) # NoExc

\* The requested key had an entry when the call started that the cache
\* still serves: its timestamp reads and its age is not over the window.
CachedValid ==
    /\ cfg.cache_enabled
    /\ call.video_id \in Keys
    /\ call.pre_cache[call.video_id] # NoEntry
    /\ timestamp_error(call.pre_cache[call.video_id]) = NoExc
    /\ ~is_expired(call.pre_cache[call.video_id], cfg.expiry_days,
                   call.started_at)

\* C26 (amended): the budget above, and with max_retries = 0 the call
\* makes no attempt; what it ends with is what the cache lookup gives: the
\* exception of the lookup when the cached entry of the video is malformed,
\* the cached text when the entry is unexpired and its text not empty, and
\* None in every other case.
C26_BudgetAndNoAttemptWithoutRetries ==
    /\ AttemptBudget
    /\ (cfg.max_retries = 0 /\ call.done)
           => /\ call.trace = << >>
              /\ call.raised <=> CachedMalformed
              /\ call.cache_hit
                    <=> ( /\ CachedValid
                          /\ call.pre_cache[call.video_id].transcript # "" )
              /\ call.cache_hit
                    => /\ ~call.raised
                       /\ call.result = call.pre_cache[call.video_id].transcript
              /\ (~call.cache_hit /\ ~call.raised) => call.result = None

\* A call that used up its attempts: a rate-limited attempt with its
\* sleep, then an IP-Blocking attempt that was the last one.
C26_Witness ==
    /\ call.done
    /\ cfg.max_retries = 2
    /\ Len(call.trace) = cfg.max_retries
    /\ call.trace[1].kind = "rate_limit"
    /\ call.trace[1].slept = RATE_LIMIT_WAIT
    /\ call.trace[Len(call.trace)].kind = "ip_blocking"
    /\ call.trace[Len(call.trace)].sel # 0
    /\ Cardinality(Sleeps(call.trace)) = cfg.max_retries - 1
    /\ call.result = None

\* The requested key's entry had expired when the call began.
ExpiredAtEntry ==
    /\ call.pre_cache[call.video_id] # NoEntry
    /\ is_expired(call.pre_cache[call.video_id], cfg.expiry_days,
                  call.started_at)

\* C27: during and after a get_transcript call the entry of every other
\* key is the one the call found; the requested key's entry changes only
\* by the removal of an expired entry or by the write of the success path;
\* a call that returned None wrote nothing.
C27_NoneLeavesCacheUnchanged ==
    call.video_id \in Keys
        => /\ \A k \in Keys \ {call.video_id} : cache[k] = call.pre_cache[k]
           /\ cache[call.video_id] # call.pre_cache[call.video_id]
                  => \/ ExpiredAtEntry /\ cache[call.video_id] = NoEntry
                     \/ /\ call.done
                        /\ call.trace # << >>
                        /\ call.trace[Len(call.trace)].kind = "success"
                        /\ call.result # None
                        /\ cache[call.video_id].transcript = call.result
           /\ (call.done /\ call.result = None)
                  => \/ cache[call.video_id] = call.pre_cache[call.video_id]
                     \/ ExpiredAtEntry /\ cache[call.video_id] = NoEntry

\* A call for a video whose cached entry had expired, which the network
\* did not answer: it returned None and the expired entry is gone.
C27_Witness ==
    /\ call.done
    /\ call.result = None
    /\ cfg.cache_enabled
    /\ call.trace # << >>
    /\ call.trace[Len(call.trace)].kind \in {"transient", "absence"}
    /\ ExpiredAtEntry
    /\ cache[call.video_id] = NoEntry
    /\ disk.file.value = cache

\* failure_count, success_count and disabled_until of a pool entry.
Counters(p) == <<p.failure_count, p.success_count, p.disabled_until>>

\* The step is a network attempt (one more entry in the trace).
AttemptStep == Len(call'.trace) = Len(call.trace) + 1

LastEntry(c) == c.trace[Len(c.trace)]

\* What one attempt does to the counters of the pool: nothing after a
\* Transient failure or an Absence, and otherwise at most one report,
\* which changes one entry.
OneReportPerAttempt ==
    AttemptStep
        => LET e == LastEntry(call')
               changed == { i \in 1..Len(proxies) :
                              Counters(proxies'[i]) # Counters(proxies[i]) }
           IN  /\ e.kind \in {"transient", "absence"} => changed = {}
               /\ e.report = "none" => changed = {}
               /\ Cardinality(changed) <= 1
               /\ \A i \in changed :
                      \/ /\ e.report = "success"
                         /\ proxies'[i].success_count = proxies[i].success_count + 1
                         /\ proxies'[i].failure_count = 0
                         /\ proxies'[i].disabled_until = proxies[i].disabled_until
                      \/ /\ e.report = "failed"
                         /\ proxies'[i].failure_count = proxies[i].failure_count + 1
                         /\ proxies'[i].success_count = proxies[i].success_count

ReportsMatchKinds ==
    \A n \in 1..Len(call.trace) :
        /\ call.trace[n].report = "failed"
               => call.trace[n].kind \in {"ip_blocking", "rate_limit"}
        /\ call.trace[n].report = "success" => call.trace[n].kind = "success"
        /\ call.trace[n].kind \in {"transient", "absence"}
               => call.trace[n].report = "none"

\* C28: an attempt that ends in a Transient failure or in Absence leaves
\* failure_count, success_count and disabled_until of every proxy as they
\* were; a failure is reported to the pool only for IP-Blocking and
\* Rate-Limit; one attempt makes at most one report.
C28_TransientAndAbsenceNotReported ==
    [][OneReportPerAttempt]_vars /\ []ReportsMatchKinds

\* A first attempt through a proxy that failed transiently: the proxy was
\* handed out (last_used is set) and its counters are those at entry.
C28_Witness ==
    /\ Len(call.trace) = 1
    /\ call.trace[1].kind = "transient"
    /\ call.trace[1].sel # 0
    /\ call.trace[1].report = "none"
    /\ proxies[call.trace[1].sel].last_used = call.started_at
    /\ \A i \in 1..Len(proxies) : Counters(proxies[i]) = Counters(call.pre[i])

(***************************************************************************)
(* Properties of the catalog (checked under SpecList).                     *)
(***************************************************************************)
\* The items of the catalog whose details were looked up and found: recent
\* uploads of a channel that was found, with no error before them in the
\* scan of their channel.
Reached ==
    { v \in (1..Len(hist.catalog)) \X (1..MaxItems) :
        /\ hist.catalog[v[1]].found
        /\ v[2] <= Len(hist.catalog[v[1]].items)
        /\ hist.catalog[v[1]].items[v[2]].recent
        /\ hist.catalog[v[1]].items[v[2]].details = "found"
        /\ \A j \in 1..v[2] :
               ~(hist.catalog[v[1]].items[j].recent
                    /\ hist.catalog[v[1]].items[j].details = "error") }

Returned == { hist.videos[n].video_id : n \in 1..Len(hist.videos) }

\* C23: get_videos_from_channels returns a recently published video
\* exactly when the video is longer than MIN_VIDEO_DURATION_SECONDS, for
\* every duration text the catalog reports.
C23_KeptIffLongerThanMinimum ==
    hist.asked
        => \A v \in Reached :
               v \in Returned
                   <=> hist.catalog[v[1]].items[v[2]].secs
                           > MIN_VIDEO_DURATION_SECONDS

(***************************************************************************)
(* Properties of the batch driver (checked under SpecBatch).               *)
(***************************************************************************)
\* C22: process_videos handles every video of its input list, in input
\* order: whatever the transcript fetch of a video does, process_videos
\* returns, the digest has one entry per input video in the order of the
\* input, and a video without transcript has the placeholder summary.
C22_EveryVideoInDigest ==
    hist.run \in {"returned", "raised"}
        => /\ hist.run = "returned"
           /\ Len(hist.digest) = Len(hist.videos)
           /\ \A i \in 1..Len(hist.digest) :
                  /\ hist.digest[i].video_id = hist.videos[i]
                  /\ ~Truthy(hist.digest[i].transcript)
                         => hist.digest[i].summary = Placeholder

\* C30: a run of main with a valid configuration, over a catalog that
\* holds videos of the topic, sends the digest and then appends every
\* video of the digest to the ledger.
C30_LedgerAfterDigest ==
    ( /\ hist.main.status # "none"
      /\ hist.main.valid
      /\ \E i \in 1..Len(hist.main.catalog) :
             hist.main.catalog[i] \in hist.main.topical )
        => /\ hist.main.status = "done"
           /\ hist.sent # << >>
           /\ \A i \in 1..Len(hist.main.catalog) :
                  hist.main.catalog[i] \in hist.main.topical
                      => /\ \E n \in 1..Len(hist.sent[Len(hist.sent)]) :
                                hist.sent[Len(hist.sent)][n].video_id
                                    = hist.main.catalog[i]
                         /\ \E n \in 1..Len(hist.ledger) :
                                hist.ledger[n] = hist.main.catalog[i]

====
